---- MODULE Spec2Model ----
(***************************************************************************)
(* Turret broker: the replay cache (src/src/replay.rs) and the dispatcher  *)
(* (src/src/server.rs), one thread per accepted connection, modelled at    *)
(* the granularity of the shared-state operations (one mutex acquisition   *)
(* or one frame write per step).                                           *)
(***************************************************************************)
EXTENDS Integers, Sequences, FiniteSets, TLC

(* ---------------------------------------------------------------------- *)
(* Bounds                                                                  *)
(* ---------------------------------------------------------------------- *)
\* total number of frames the peers send during a run
MaxFrames == 4
\* the wall clock runs over 0..MaxTime
MaxTime == 2
\* ServerConfig.replay_window_ms, scaled to clock ticks
Window == 1

(* ---------------------------------------------------------------------- *)
(* The loaded catalog (the Bunker handed to Server::new)                   *)
(* ---------------------------------------------------------------------- *)
\* byte strings that are not valid UTF-8
NonUtf8 == {"xFF"}

Utf8(b) == b \notin NonUtf8

\* the catalog as server.rs reads it: agents, repeaters, actions, permissions.
\* "ghost" is permitted but owned by nobody (Server::new does not validate).
Bunker ==
  [ agents      |-> {"ag1"},
    repeaters   |-> {"rp1", "rp2"},
    actions     |-> [a \in {"echo", "ping"} |-> IF a = "echo" THEN "rp1" ELSE "rp2"],
    permissions |-> [p \in {"ag1"} |-> {"echo", "ghost"}] ]

None == "none"

\* lookup_vk: the verifying key of a principal (keys are named after their owner)
lookup_vk(principal) ==
  IF ~Utf8(principal) THEN None
  ELSE IF principal \in Bunker.agents THEN principal
  ELSE IF principal \in Bunker.repeaters THEN principal
  ELSE None

(* ---------------------------------------------------------------------- *)
(* Connections                                                             *)
(* ---------------------------------------------------------------------- *)
AgentConns == {"a1", "a2"}
RepeaterConns == {"r1", "r2"}
Conns == AgentConns \cup RepeaterConns

\* PeerKind of the listener that accepted the connection
kind(c) == IF c \in AgentConns THEN "Agent" ELSE "Repeater"

(* ---------------------------------------------------------------------- *)
(* Frames on the wire                                                      *)
(* ---------------------------------------------------------------------- *)
\* a body: shape says which body layout the bytes have ("garbage": none)
Body(shape, rid, action, rep, acts, code) ==
  [shape |-> shape, request_id |-> rid, action |-> action,
   repeater_id |-> rep, actions |-> acts, code |-> code]

GarbageBody == Body("garbage", "", "", "", {}, "")

\* a frame payload: whether the bytes decode as an envelope at all (wire),
\* the envelope fields, and whether bytes follow the signature field (trail)
Payload(wire, t, p, ts, n, body, sig, trail) ==
  [wire |-> wire, msg_type |-> t, principal |-> p, ts_ms |-> ts, nonce |-> n,
   body |-> body, sig |-> sig, trail |-> trail]

NoPayload == Payload("none", "", "", 0, "", GarbageBody, "", FALSE)

\* the ways Envelope::decode turns a payload down
DecodeErrors ==
  {"bad magic", "bad version", "unknown message type", "bstr too large",
   "bad signature length"}

\* a payload Envelope::decode rejects: its first bytes are not the magic
BadPayload == Payload("bad magic", "", "", 0, "", GarbageBody, "", FALSE)

\* frames signed by their principal (sig names the signing key)
Inv(p, ts, n, q, a, tr) ==
  Payload("ok", "Invoke", p, ts, n, Body("invoke", q, a, "", {}, ""), p, tr)
Reg(p, ts, n, rep, acts) ==
  Payload("ok", "Register", p, ts, n, Body("register", "", "", rep, acts, ""), p, FALSE)
Res(p, ts, n, q, tr) ==
  Payload("ok", "Result", p, ts, n, Body("result", q, "", "", {}, ""), p, tr)
Err(p, ts, n, q, tr) ==
  Payload("ok", "Error", p, ts, n, Body("error", q, "", "", {}, "Internal"), p, tr)
\* a frame whose body does not decode for its message type
Garbled(t, p, ts, n) == Payload("ok", t, p, ts, n, GarbageBody, p, FALSE)
\* the frame f with a signature that does not verify
Forged(f) == [f EXCEPT !.sig = "forged"]
\* the frame f with one field spoilt so that Envelope::decode fails with why
Spoilt(f, why) == [f EXCEPT !.wire = why]

\* the peer closes its end: read_frame meets EOF
Eof == Payload("eof", "", "", 0, "", GarbageBody, "", FALSE)
\* the stream breaks or announces an oversized frame: read_frame fails
IoErr == Payload("ioerr", "", "", 0, "", GarbageBody, "", FALSE)

RequestIds == {"q1", "q2"}

\* What the peers do: for each connection the frames its peer writes, each
\* once, in any order (<<k, f>>: the k-th copy of frame f), and whether it
\* hangs up; and for how many clock ticks the deployment is observed.
NoFrames == [c \in Conns |-> {}]

Script(frames, horizon) == [frames |-> frames, horizon |-> horizon]

\* echo round trip, a second agent reusing the request id, a second repeater
\* answering the same request id
ScriptEcho ==
  Script([NoFrames EXCEPT
     !["r1"] = {<<1, Reg("rp1", 0, "n1", "rp1", {"echo", "ping", "xFF"})>>,
                <<1, Res("rp1", 0, "n2", "q1", TRUE)>>},
     !["r2"] = {<<1, Err("rp2", 0, "n1", "q1", FALSE)>>},
     !["a1"] = {<<1, Inv("ag1", 0, "n1", "q1", "echo", TRUE)>>, <<1, Eof>>},
     !["a2"] = {<<1, Inv("ag1", 0, "n2", "q1", "echo", FALSE)>>}], 0)

\* sessions replaced and connections ending
ScriptSessions ==
  Script([NoFrames EXCEPT
     !["r1"] = {<<1, Reg("rp1", 0, "n1", "rp1", {"echo"})>>,
                <<1, Forged(Res("rp1", 0, "n3", "q1", FALSE))>>,
                <<1, Eof>>, <<1, IoErr>>},
     !["r2"] = {<<1, Reg("rp1", 0, "n2", "rp1", {"echo", "ping"})>>,
                <<1, Reg("rp2", 0, "n1", "rp2", {"ping"})>>,
                <<1, Eof>>},
     !["a1"] = {<<1, Inv("ag1", 0, "n1", "q1", "echo", FALSE)>>}], 0)

\* every way an Invoke is turned down
ScriptDenials ==
  Script([NoFrames EXCEPT
     !["r1"] = {<<1, Reg("rp1", 0, "n1", "rp1", {})>>},
     !["a1"] = {<<1, Inv("ag1", 0, "n1", "q1", "echo", FALSE)>>,
                <<1, Inv("ag1", 0, "n2", "q2", "ping", FALSE)>>,
                <<1, Inv("ag1", 0, "n3", "q1", "ghost", FALSE)>>,
                <<1, Inv("ag1", 0, "n4", "q2", "nope", FALSE)>>,
                <<1, Inv("ag1", 0, "n5", "q1", "xFF", FALSE)>>,
                <<1, Garbled("Invoke", "ag1", 0, "n1")>>},
     !["a2"] = {<<1, Inv("ag1", 0, "n1", "q2", "echo", FALSE)>>}], 0)

\* every way a Register is turned down, and frames on the wrong endpoint
ScriptRegisters ==
  Script([NoFrames EXCEPT
     !["r1"] = {<<1, Reg("rp1", 0, "n2", "rp2", {"echo"})>>,
                <<1, Reg("ag1", 0, "n5", "ag1", {"echo"})>>,
                <<1, Garbled("Register", "rp1", 0, "n3")>>,
                <<1, Inv("ag1", 0, "n2", "q1", "echo", FALSE)>>},
     !["r2"] = {<<1, Reg("rp1", 0, "n6", "rp1", {"echo", "ping", "xFF"})>>},
     !["a1"] = {<<1, Inv("ag1", 0, "n1", "q1", "echo", FALSE)>>},
     !["a2"] = {<<1, Reg("rp1", 0, "n7", "rp1", {"echo"})>>,
                <<1, Res("rp1", 0, "n8", "q1", FALSE)>>}], 0)

\* frames that do not decode, unknown principals, malformed replies
ScriptStrangers ==
  Script([NoFrames EXCEPT
     !["r1"] = {<<1, Reg("rp1", 0, "n1", "rp1", {"echo"})>>,
                <<1, Garbled("Result", "rp1", 0, "n2")>>},
     !["r2"] = {<<1, BadPayload>>,
                <<1, Res("rp2", 0, "n1", "q1", FALSE)>>,
                <<1, Inv("zz", 0, "n1", "q1", "echo", FALSE)>>},
     !["a1"] = {<<1, Inv("ag1", 0, "n1", "q1", "echo", FALSE)>>,
                <<1, Inv("xFF", 0, "n1", "q1", "echo", FALSE)>>},
     !["a2"] = {<<1, Inv("rp1", 0, "n7", "q1", "echo", FALSE)>>}], 0)

\* envelopes that fail to decode, each for another reason, from peers whose
\* frames are otherwise in order
ScriptSpoilt ==
  Script([NoFrames EXCEPT
     !["r1"] = {<<1, Reg("rp1", 0, "n1", "rp1", {"echo"})>>,
                <<1, Spoilt(Res("rp1", 0, "n2", "q1", FALSE), "bad signature length")>>},
     !["r2"] = {<<1, Spoilt(Reg("rp2", 0, "n1", "rp2", {"ping"}), "bad version")>>},
     !["a1"] = {<<1, Inv("ag1", 0, "n1", "q1", "echo", FALSE)>>,
                <<1, Spoilt(Inv("ag1", 0, "n2", "q2", "echo", FALSE), "unknown message type")>>,
                <<1, Spoilt(Inv("ag1", 0, "n3", "q2", "echo", FALSE), "bstr too large")>>},
     !["a2"] = {<<1, BadPayload>>}], 0)

\* timestamps across the window, one frame sent on two connections, a nonce
\* reused with a later timestamp, and the repeater leaving
ScriptReplay ==
  Script([NoFrames EXCEPT
     !["r1"] = {<<1, Reg("rp1", 1, "n1", "rp1", {"echo"})>>, <<1, Eof>>},
     !["a1"] = {<<1, Inv("ag1", 0, "n1", "q1", "echo", FALSE)>>,
                <<1, Inv("ag1", MaxTime, "n1", "q2", "echo", FALSE)>>},
     !["a2"] = {<<1, Inv("ag1", 0, "n1", "q1", "echo", FALSE)>>}], MaxTime)

\* a forged frame and the genuine frame with the same nonce
ScriptForged ==
  Script([NoFrames EXCEPT
     !["r1"] = {<<1, Reg("rp1", 0, "n1", "rp1", {"echo"})>>,
                <<1, Forged(Inv("ag1", 0, "n3", "q1", "echo", FALSE))>>},
     !["a1"] = {<<1, Inv("ag1", 0, "n3", "q1", "echo", FALSE)>>},
     !["a2"] = {<<1, Forged(Inv("ag1", 0, "n3", "q1", "echo", FALSE))>>,
                <<1, Inv("ag1", 0, "n4", "q2", "echo", FALSE)>>}], 0)

\* the clock moves while a broken stream and a frame on the wrong endpoint
\* are handled
ScriptClock ==
  Script([NoFrames EXCEPT
     !["r1"] = {<<1, IoErr>>},
     !["a2"] = {<<1, Reg("rp1", 0, "n7", "rp1", {"echo"})>>}], 1)

Scripts ==
  {ScriptEcho, ScriptSessions, ScriptDenials, ScriptRegisters, ScriptStrangers,
   ScriptReplay, ScriptForged, ScriptClock, ScriptSpoilt}

\* the deployments in which the round trip is followed to its end
RoundTripScripts == {ScriptEcho, ScriptForged, ScriptClock}

(* ---------------------------------------------------------------------- *)
(* Codecs (src/src/protocol.rs) and signatures (src/src/crypto.rs)         *)
(* ---------------------------------------------------------------------- *)
\* Envelope::decode: the fields, without whatever follows the signature
Envelope_decode(payload) ==
  [msg_type |-> payload.msg_type, principal |-> payload.principal,
   ts_ms |-> payload.ts_ms, nonce |-> payload.nonce, body |-> payload.body,
   sig |-> payload.sig]

\* mutant of Envelope_decodes: the protocol version is not looked at
Envelope_decodes_any_version(payload) == payload.wire \in {"ok", "bad version"}

\* Envelope::decode succeeds: magic, version, message type, bstr lengths and
\* signature length are all in order
Envelope_decodes(payload) == payload.wire = "ok"

\* Envelope::encode: exactly the fields, nothing after the signature
Envelope_encode(env) ==
  Payload("ok", env.msg_type, env.principal, env.ts_ms, env.nonce, env.body,
          env.sig, FALSE)

\* the body decoders succeed on bytes of their own layout; ResultBody reads
\* two leading bstr fields, which an InvokeBody also starts with
RegisterBody_decodes(b) == b.shape = "register"
InvokeBody_decodes(b) == b.shape = "invoke"
ResultBody_decodes(b) == b.shape \in {"result", "invoke"}
ErrorBody_decodes(b) == b.shape = "error"

\* mutant of verify: every signature is accepted
verify_any(vk, env) == TRUE

\* crypto::verify: the signature was made with the key vk over the canonical
\* bytes of this envelope ("forged": it was not)
verify(vk, env) == env.sig = vk

(* ---------------------------------------------------------------------- *)
(* Replay cache (src/src/replay.rs)                                        *)
(* ---------------------------------------------------------------------- *)
\* seen: principal -> nonce -> seen_at, as a set of <<principal, nonce,
\* seen_at>> with one triple per (principal, nonce); queue: sequence of
\* <<seen_at, principal, nonce>>
EmptyCache == [seen |-> {}, queue |-> << >>]

contains_key(seen, principal, nonce) ==
  \E e \in seen : e[1] = principal /\ e[2] = nonce

saturating_sub(a, b) == IF a >= b THEN a - b ELSE 0

RECURSIVE evict(_, _)
evict(cache, now_ms) ==
  LET cutoff == saturating_sub(now_ms, Window) IN
  IF cache.queue = << >> THEN cache
  ELSE LET front == Head(cache.queue) IN
       IF front[1] >= cutoff THEN cache
       ELSE evict([seen  |-> {e \in cache.seen :
                                ~(e[1] = front[2] /\ e[2] = front[3])},
                   queue |-> Tail(cache.queue)], now_ms)

\* mutant of check_and_record: only timestamps in the past are measured
check_and_record_past_only(cache, now_ms, ts_ms, principal, nonce) ==
  LET dt == saturating_sub(now_ms, ts_ms) IN
  IF dt > Window THEN <<"OutsideWindow", cache>>
  ELSE LET c1 == evict(cache, now_ms) IN
       IF contains_key(c1.seen, principal, nonce) THEN <<"Replay", c1>>
       ELSE <<"Ok",
              [seen  |-> c1.seen \cup {<<principal, nonce, ts_ms>>},
               queue |-> Append(c1.queue, <<ts_ms, principal, nonce>>)]>>

\* check_and_record: <<result, cache afterwards>>
check_and_record(cache, now_ms, ts_ms, principal, nonce) ==
  LET dt == IF now_ms >= ts_ms THEN now_ms - ts_ms ELSE ts_ms - now_ms IN
  IF dt > Window THEN <<"OutsideWindow", cache>>
  ELSE LET c1 == evict(cache, now_ms) IN
       IF contains_key(c1.seen, principal, nonce) THEN <<"Replay", c1>>
       ELSE <<"Ok",
              [seen  |-> c1.seen \cup {<<principal, nonce, ts_ms>>},
               queue |-> Append(c1.queue, <<ts_ms, principal, nonce>>)]>>

(* ---------------------------------------------------------------------- *)
(* The bunker file (bunker.rs, rage.rs)                                     *)
(* ---------------------------------------------------------------------- *)
\* BTreeMap iteration order of the agent names a permissions table may hold
AgentOrder == <<"ag1", "ag2">>

\* BTreeMap iteration order of the target names
TargetOrder == <<"", "echo">>

\* a TargetDef as validate reads it: whether out_command.trim() is empty, the
\* {name} tokens collect_secret_refs finds in the transform, the shape sets
TargetDef(blank, refs, allow, forbid, require) ==
  [blank |-> blank, refs |-> refs, allow |-> allow, forbid |-> forbid,
   require |-> require]

GoodDef == TargetDef(FALSE, {}, {"argv"}, {}, {})
BlankDef == TargetDef(TRUE, {}, {"argv"}, {}, {})
SecretDef == TargetDef(FALSE, {"s1"}, {"argv"}, {}, {})
ConflictDef == TargetDef(FALSE, {}, {}, {"argv"}, {"argv"})
BogusDef == TargetDef(FALSE, {}, {"bogus"}, {}, {})

NoTable == [x \in {} |-> {}]

\* struct Bunker
MkBunker(operators, agents, targets, permissions, secrets) ==
  [operators |-> operators, agents |-> agents, targets |-> targets,
   permissions |-> permissions, secrets |-> secrets]

\* Bunker::new
Bunker_new == MkBunker({}, {}, NoTable, NoTable, {})

\* the first permission entry, in iteration order, that validate turns down
FirstBadPermission(b) ==
  LET bad(a) == /\ a \in DOMAIN b.permissions
                /\ \/ a \notin b.agents
                   \/ \E t \in b.permissions[a] : t \notin DOMAIN b.targets
      idx == {i \in DOMAIN AgentOrder : bad(AgentOrder[i])}
  IN IF idx = {} THEN None
     ELSE AgentOrder[CHOOSE i \in idx : \A j \in idx : i <= j]

\* the checks validate makes of one target, in order
TargetError(b, name) ==
  LET def == b.targets[name] IN
  IF name = "" THEN "empty target name"
  ELSE IF def.blank THEN "target out_command is empty"
  ELSE IF ~(def.allow \cup def.forbid \cup def.require
              \subseteq {"command", "argv", "env", "stdin"})
       THEN "target shape has unknown field"
  ELSE IF def.require \cap def.forbid # {}
       THEN "target shape conflicts: field both required and forbidden"
  ELSE IF ~(def.refs \subseteq b.secrets)
       THEN "target references unknown secret"
  ELSE "ok"

\* the first target, in iteration order, that validate turns down
FirstBadTarget(b) ==
  LET idx == {i \in DOMAIN TargetOrder :
                /\ TargetOrder[i] \in DOMAIN b.targets
                /\ TargetError(b, TargetOrder[i]) # "ok"}
  IN IF idx = {} THEN None
     ELSE TargetOrder[CHOOSE i \in idx : \A j \in idx : i <= j]

\* mutant of validate: the secret references of the targets are not looked at
validate_without_secret_refs(b) ==
  IF b.operators = {} THEN "no operators"
  ELSE IF FirstBadPermission(b) # None
       THEN IF FirstBadPermission(b) \notin b.agents
            THEN "permission references unknown agent"
            ELSE "permission references unknown target"
  ELSE IF FirstBadTarget([b EXCEPT !.secrets = {"s1"}]) # None
       THEN TargetError([b EXCEPT !.secrets = {"s1"}],
                        FirstBadTarget([b EXCEPT !.secrets = {"s1"}]))
  ELSE "ok"

\* Bunker::validate: "ok" or the message of the first failing check
validate(b) ==
  IF b.operators = {} THEN "no operators"
  ELSE IF FirstBadPermission(b) # None
       THEN IF FirstBadPermission(b) \notin b.agents
            THEN "permission references unknown agent"
            ELSE "permission references unknown target"
  ELSE IF FirstBadTarget(b) # None THEN TargetError(b, FirstBadTarget(b))
  ELSE "ok"

\* a bunker plaintext: whether it is UTF-8 TOML that TomlBunker deserializes,
\* the fields TomlBunker reads, and the tables [actions] and [repeaters],
\* which TomlBunker does not declare
Doc(toml, version, recipients, agents, targets, permissions, secrets, actions, repeaters) ==
  [toml |-> toml, version |-> version, recipients |-> recipients,
   agents |-> agents, targets |-> targets, permissions |-> permissions,
   secrets |-> secrets, actions |-> actions, repeaters |-> repeaters]

\* the outcome of a fallible call
Ok(v) == [ok |-> TRUE, err |-> "", v |-> v]
Fail(msg) == [ok |-> FALSE, err |-> msg, v |-> Bunker_new]

\* TryFrom<TomlBunker> for Bunker
try_from(t) ==
  IF t.version # 1 THEN Fail("unsupported bunker version")
  ELSE LET b == MkBunker(t.recipients, t.agents, t.targets, t.permissions,
                         t.secrets)
       IN IF validate(b) = "ok" THEN Ok(b) ELSE Fail(validate(b))

\* Bunker::decode: from_utf8, toml::from_str, try_into; tables TomlBunker
\* does not declare are skipped by the deserializer
Bunker_decode(pt) == IF ~pt.toml THEN Fail("toml") ELSE try_from(pt)

\* Bunker::encode through From<Bunker> for TomlBunker: version 1 and the five
\* fields of the struct
Bunker_encode(b) ==
  Doc(TRUE, 1, b.operators, b.agents, b.targets, b.permissions, b.secrets,
      NoTable, {})

\* ssh identities (private keys); a public key is named after its identity
Identities == {"op1", "op2", "host", "eve"}

\* the recipient lines rage takes: "junk" is no public key
ValidRecipients == {"op1", "op2", "host"}

\* the recipients rage reads from a recipients file: one per line, a blank
\* line is skipped
rage_recipients(lines) == lines \ {""}

NoDoc == Doc(FALSE, 0, {}, {}, NoTable, NoTable, {}, NoTable, {})

\* the content of a path: nothing, bytes without the age header, the output
\* of a rage run that was cut short, or an age file: its recipients, its
\* plaintext and the randomness of that encryption
MkFile(what, recipients, pt, gen) ==
  [kind |-> what, recipients |-> recipients, pt |-> pt, gen |-> gen]

Absent == MkFile("absent", {}, NoDoc, 0)
PlainFile == MkFile("text", {}, NoDoc, 0)
Partial == MkFile("partial", {}, NoDoc, 0)
Sealed(recipients, pt, gen) == MkFile("age", recipients, pt, gen)

\* mutant of looks_like_age_file: every file passes
looks_like_anything(enc) == TRUE

\* rage::looks_like_age_file
looks_like_age_file(enc) == enc.kind \in {"age", "partial"}

\* rage::decrypt_with_identity_file succeeds
decrypts(enc, identity) == enc.kind = "age" /\ identity \in enc.recipients

\* the outcome of fire_up with the identities it handed to rage, in order
Tried(r, tried) == [ok |-> r.ok, err |-> r.err, v |-> r.v, tried |-> tried]

\* fire_up(path, host_ssh_key, operator_ssh_key)
fire_up(enc, host, operator) ==
  IF enc.kind = "absent" THEN Tried(Fail("failed to read bunker"), << >>)
  ELSE IF ~looks_like_age_file(enc)
       THEN Tried(Fail("bunker is not an age file"), << >>)
  ELSE IF decrypts(enc, host) THEN Tried(Bunker_decode(enc.pt), <<host>>)
  ELSE IF operator = None
       THEN Tried(Fail("this bunker requires an operator; could not decrypt with host key"),
                  <<host>>)
  ELSE IF decrypts(enc, operator)
       THEN Tried(Bunker_decode(enc.pt), <<host, operator>>)
  ELSE Tried(Fail("this operator is not permitted to open this bunker"),
             <<host, operator>>)

\* open_with_identity(path, identity, "operator")
open_with_identity(enc, identity) ==
  IF enc.kind = "absent" THEN Fail("failed to read bunker")
  ELSE IF ~looks_like_age_file(enc) THEN Fail("bunker is not an age file")
  ELSE IF ~decrypts(enc, identity) THEN Fail("decrypt failed")
  ELSE Bunker_decode(enc.pt)

\* one invocation of the turret binary: the verb, its ident, its target (or
\* --from definition), the identity given as --operator, and --weak
Command(verb, ident, target, def, operator, weak) ==
  [verb |-> verb, ident |-> ident, target |-> target, def |-> def,
   operator |-> operator, weak |-> weak]

NoCommand == Command("none", "", "", GoodDef, None, FALSE)

\* b with the entry k -> v inserted in table t
Insert(t, k, v) == [x \in DOMAIN t \cup {k} |-> IF x = k THEN v ELSE t[x]]

\* t without the key k
Remove(t, k) == [x \in DOMAIN t \ {k} |-> t[x]]

\* b.operators.is_empty() after the removal
final_operator(ops) == ops = {}

\* mutant of operator_present: the result of remove is not looked at
operator_assumed_present(ops, key) == TRUE

\* what b.operators.remove(&key) returns
operator_present(ops, key) == key \in ops

\* the arm of real_main for cmd, from the opened bunker b up to validate:
\* the bunker to write, or the error the command ends with
Mutate(b, cmd) ==
  LET checked(m) == IF validate(m) = "ok" THEN Ok(m) ELSE Fail(validate(m))
  IN
  CASE cmd.verb = "in_operator" ->
         checked([b EXCEPT !.operators = @ \cup {cmd.ident}])
    [] cmd.verb = "in_recruit" ->
         checked([b EXCEPT !.agents = @ \cup {cmd.ident}])
    [] cmd.verb = "in_target" ->
         checked([b EXCEPT !.targets = Insert(@, cmd.ident, cmd.def)])
    [] cmd.verb = "in_secret" ->
         checked([b EXCEPT !.secrets = @ \cup {cmd.ident}])
    [] cmd.verb = "out_operator" ->
         IF ~operator_present(b.operators, cmd.ident)
         THEN Fail("operator not present")
         ELSE IF final_operator(b.operators \ {cmd.ident})
              THEN Fail("cannot remove final operator")
         ELSE checked([b EXCEPT !.operators = @ \ {cmd.ident}])
    [] cmd.verb = "out_recruit" ->
         checked([b EXCEPT !.agents = @ \ {cmd.ident},
                           !.permissions = Remove(@, cmd.ident)])
    [] cmd.verb = "out_target" ->
         checked([b EXCEPT !.targets = Remove(@, cmd.ident),
                           !.permissions =
                             [a \in DOMAIN @ |-> @[a] \ {cmd.ident}]])
    [] cmd.verb = "out_secret" ->
         checked([b EXCEPT !.secrets = @ \ {cmd.ident}])
    [] cmd.verb = "allow" ->
         checked([b EXCEPT !.permissions =
                    Insert(@, cmd.ident,
                           (IF cmd.ident \in DOMAIN @ THEN @[cmd.ident] ELSE {})
                             \cup {cmd.target})])
    [] cmd.verb = "deny" ->
         checked([b EXCEPT !.permissions =
                    IF cmd.ident \in DOMAIN @
                    THEN [@ EXCEPT ![cmd.ident] = @ \ {cmd.target}]
                    ELSE @])

\* the Dig arm: the bunker to write, or the error
Dig(cmd) ==
  IF ~cmd.weak /\ cmd.ident = None
  THEN Fail("either --weak, --operator, or both are required")
  ELSE LET ops == (IF cmd.weak THEN {"host"} ELSE {})
                    \cup (IF cmd.ident # None THEN {cmd.ident} ELSE {})
           b   == [Bunker_new EXCEPT !.operators = ops]
       IN IF validate(b) = "ok" THEN Ok(b) ELSE Fail(validate(b))

\* the command up to its call of write_bunker_encrypted
Prepare(enc, cmd) ==
  IF cmd.verb = "dig" THEN Dig(cmd)
  ELSE LET opened == open_with_identity(enc, cmd.operator)
       IN IF opened.ok THEN Mutate(opened.v, cmd) ELSE opened

\* the recipient lines write_bunker_encrypted puts into the recipients file
recips_of(b) == b.operators

\* mutant of seal_path: rage writes over the bunker itself
seal_in_place(path) == path

\* the path rage is told to write: .turret.bunker.tmp beside the bunker
seal_path(path) == "tmp_out"

\* plaintexts a bunker file may hold before any command runs
GoodDoc ==
  Doc(TRUE, 1, {"op1"}, {"ag1"}, [t \in {"echo"} |-> GoodDef],
      [a \in {"ag1"} |-> {"echo"}], {}, [a \in {"echo"} |-> "rp1"], {"rp1"})
NoOperatorsDoc == [GoodDoc EXCEPT !.recipients = {}]
UnknownAgentDoc == [GoodDoc EXCEPT !.permissions = [a \in {"ag2"} |-> {"echo"}]]
UnknownTargetDoc ==
  [GoodDoc EXCEPT !.targets = NoTable, !.actions = NoTable]
VersionTwoDoc == [GoodDoc EXCEPT !.version = 2]
OrphanActionDoc == [GoodDoc EXCEPT !.actions = [a \in {"echo"} |-> "nobody"]]
NotTomlDoc == [GoodDoc EXCEPT !.toml = FALSE]

\* what the bunker path may hold before any command runs: no file, a file
\* that is no age file, a strong bunker (operator only), a weak bunker (host
\* key among the recipients), and hand-sealed files of each kind
InitialFiles ==
  {Absent, PlainFile, Sealed({"op1"}, GoodDoc, 0),
   Sealed({"host", "op1"}, [GoodDoc EXCEPT !.recipients = {"host", "op1"}], 0)}
    \cup {Sealed({"op1"}, d, 0) :
            d \in {NoOperatorsDoc, UnknownAgentDoc, UnknownTargetDoc,
                   VersionTwoDoc, OrphanActionDoc, NotTomlDoc}}

\* read_operator_pubkey: a string that starts with "ssh-" or "age1" is the
\* key; any other names a file whose first line, trimmed, is taken: "junk"
\* for a line that is no key, "" for a file that is empty or starts with a
\* blank line. The invocations followed:
Commands ==
  {Command("dig", None, "", GoodDef, None, TRUE),
   Command("dig", "op2", "", GoodDef, None, FALSE),
   Command("dig", None, "", GoodDef, None, FALSE)}
    \cup {Command(v, i, "", GoodDef, o, FALSE) :
            v \in {"in_operator", "out_operator"}, i \in {"op1", "op2"},
            o \in {"op1", "op2"}}
    \cup {Command("in_operator", "junk", "", GoodDef, "op1", FALSE),
          Command("in_operator", "", "", GoodDef, "op1", FALSE),
          Command("in_recruit", "ag2", "", GoodDef, "eve", FALSE),
          Command("in_recruit", "ag2", "", GoodDef, "op1", FALSE),
          Command("out_recruit", "ag1", "", GoodDef, "op1", FALSE),
          Command("in_target", "", "", GoodDef, "op1", FALSE),
          Command("out_target", "echo", "", GoodDef, "op1", FALSE),
          Command("in_secret", "s1", "", GoodDef, "op1", FALSE),
          Command("out_secret", "s1", "", GoodDef, "op1", FALSE),
          Command("allow", "ag1", "ping", GoodDef, "op1", FALSE),
          Command("allow", "ag2", "echo", GoodDef, "op1", FALSE),
          Command("deny", "ag1", "echo", GoodDef, "op1", FALSE)}
    \cup {Command("in_target", "echo", "", d, "op1", FALSE) :
            d \in {BlankDef, SecretDef, ConflictDef, BogusDef}}

(* ---------------------------------------------------------------------- *)
(* Broker state (src/src/server.rs)                                        *)
(* ---------------------------------------------------------------------- *)
VARIABLES
  now,                   \* the wall clock read by now_ms()
  replay,                \* SharedState.replay
  repeaters,             \* SharedState.repeaters: repeater_id -> session
  pending,               \* SharedState.pending: request_id -> agent writer
  pc,                    \* where each connection's peer_read_loop stands
  payload,               \* peer_read_loop: the frame being handled
  now_ms,                \* peer_read_loop: the clock value sampled for it
  session,               \* peer_read_loop: the session cloned for an Invoke
  agent,                 \* route_reply: the handle removed from pending
  repeater_id_for_conn,  \* peer_read_loop: the id this connection registered
  out,                   \* the frames written to each connection's stream
  wire,                  \* the frames each connection's peer has yet to send
  horizon,               \* the last clock value of the deployment
  nframes,               \* number of frames read so far
  heard,                 \* history: frames written to the stream before the read
  arrived,               \* history: how many frames each connection has read
  sessions_ever,         \* history: every session inserted by a Register,
                         \* numbered per repeater_id in the order of insertion
  accepted,              \* history: the check_and_record accepted that succeeded
  inserted,              \* history: per request id, the connections whose
                         \* Invoke inserted a pending entry, in order
  write_lock,            \* per connection, the thread holding the Mutex of its
                         \* write handle
  stream,                \* per connection, the pieces write_all has put on it
  wpc,                   \* per thread, where it is in a write_frame call
  nwrites,               \* write_frame calls begun
  stop,                  \* Server.stop, the AtomicBool
  run_pc,                \* where Server::run stands
  apc,                   \* per listener, where its accept_loop stands
  backlog,               \* per listener, connections made and not yet accepted
  accepts,               \* per listener, connections accept() has returned
  peers,                 \* peer_read_loop threads spawned and still running
  saw_stop,              \* history: the listener's loop has loaded stop = true
  file,                  \* what the bunker path holds
  tmp_out,               \* what .turret.bunker.tmp holds
  tmp_recips,            \* what .turret.recipients.tmp holds
  adm,                   \* the running turret command: where it stands, its
                         \* arguments, the bunker it is about to write
  ncmds,                 \* turret commands begun
  fired,                 \* the outcome of the last fire_up
  snapshot,              \* the bunker handed to run_daemon
  last,                  \* history: the last command, the file it found,
                         \* how it ended
  pipe,                  \* framing: the bytes written and not yet read
  track,                 \* history: the whole frames in pipe and the bytes
                         \* before them
  fres,                  \* framing: the last call and what it returned
  fcalls,                \* framing: read_frame and write_frame calls made
  cval,                  \* codec: the envelope or body handed to encode
  cenc,                  \* codec: what encode returned
  cdec,                  \* codec: what decode returned for those bytes
  cstage,                \* codec: which of the two calls were made
  signed,                \* signing: the tuple that was signed
  claimed,               \* signing: the tuple presented with that signature
  sigmsg,                \* signing: the key and the bytes the signature covers
  verdict,               \* signing: what verify returned
  gstage,                \* signing: which of sign and verify were called
  ibunker,               \* invoke: the bunker handed to execute_invoke
  ireq,                  \* invoke: the InvokePayload handed to execute_invoke
  ires,                  \* invoke: what execute_invoke returned
  spawned,               \* invoke: the processes run_target has spawned
  istage,                \* invoke: whether execute_invoke was called
  owner,                 \* locks: per mutex, the thread holding its guard
  todo,                  \* locks: per thread, the lock operations left in the frame it handles
  ended,                 \* locks: the threads whose peer_read_loop has returned
  npaths                 \* locks: frames whose handling was begun

vars == <<now, replay, repeaters, pending, pc, payload, now_ms, session, agent,
          repeater_id_for_conn, out, wire, horizon, nframes, heard, arrived, sessions_ever,
          accepted, inserted, write_lock, stream, wpc, nwrites,
          stop, run_pc, apc, backlog, accepts, peers, saw_stop,
          file, tmp_out, tmp_recips, adm, ncmds, fired, snapshot, last,
          pipe, track, fres, fcalls, cval, cenc, cdec, cstage,
          signed, claimed, sigmsg, verdict, gstage,
          ibunker, ireq, ires, spawned, istage,
          owner, todo, ended, npaths>>

\* the byte-level state of the write handles
wvars == <<write_lock, stream, wpc, nwrites>>

\* the two listeners of Server::run
PeerKinds == {"Agent", "Repeater"}

\* the state of Server::run and of its accept loops
svars == <<stop, run_pc, apc, backlog, accepts, peers, saw_stop>>

\* the bunker file, the command working on it and the daemon's start
avars == <<file, tmp_out, tmp_recips, adm, ncmds, fired, snapshot, last>>

\* one value taken through encode and decode
cvars == <<cval, cenc, cdec, cstage>>

\* a stream between one write_frame caller and one read_frame caller
fvars == <<pipe, track, fres, fcalls>>

gvars == <<signed, claimed, sigmsg, verdict, gstage>>

ivars == <<ibunker, ireq, ires, spawned, istage>>

lvars == <<owner, todo, ended, npaths>>

\* the state of the functions followed on their own
pvars == <<fvars, cvars, gvars, ivars, lvars>>

NoSession == [write |-> None, registered_actions |-> {}]

\* the byte strings a session can be keyed by: the HashMap takes any key, and a
\* Register reaches the insertion only with repeater_id equal to a principal
\* that lookup_vk knows
SessionKeys == Bunker.agents \cup Bunker.repeaters

\* an entry of out: the bytes written, the bytes the writing thread had read
\* and their place k in the order of arrival on its connection, the writing
\* thread, the call site, and for a forward the session it used
Written(frame, read, by, how, sess) ==
  [frame |-> frame, read |-> read, k |-> arrived[by], by |-> by, how |-> how,
   sess |-> sess]

\* a thread that is not inside a write_frame call
NotWriting == [at |-> "idle", w |-> None, frame |-> 0]

\* Server::run has bound both sockets and spawned both accept loops, which
\* have accepted the connections of Conns; run waits in the first join
Running ==
  /\ stop = FALSE
  /\ run_pc = "join_agent"
  /\ apc = [k \in PeerKinds |-> "check"]
  /\ backlog = [k \in PeerKinds |-> 0]
  /\ accepts = [k \in PeerKinds |-> Cardinality({c \in Conns : kind(c) = k})]
  /\ peers = Cardinality(Conns)
  /\ saw_stop = [k \in PeerKinds |-> FALSE]

\* no recipients file
NoRecipients == [exists |-> FALSE, lines |-> {}]

\* no turret command is running
Idle == [pc |-> "idle", cmd |-> NoCommand, b |-> Bunker_new]

\* no daemon was started
NotFired == [res |-> Tried(Fail("not started"), << >>), operator |-> None,
             enc |-> Absent]
NoSnapshot == [installed |-> FALSE, v |-> Bunker_new]

\* the bunker path holds one of files; nothing has been run
AdminStart(files) ==
  /\ file \in files
  /\ tmp_out = Absent
  /\ tmp_recips = NoRecipients
  /\ adm = Idle
  /\ ncmds = 0
  /\ fired = NotFired
  /\ snapshot = NoSnapshot
  /\ last = [cmd |-> NoCommand, pre |-> file, result |-> "none"]

\* neither read_frame nor write_frame was called
NoCall == [op |-> "none", payload |-> << >>, err |-> "none", buf |-> << >>]

\* nothing was written to the stream
FramingIdle ==
  /\ pipe = << >>
  /\ track = [junk |-> 0, sent |-> << >>, torn |-> FALSE, read_back |-> 0]
  /\ fres = NoCall
  /\ fcalls = 0

\* the outcome of a codec call that was not made
NotCalled == [err |-> "not called", val |-> << >>]

\* no value is taken through the codecs
CodecIdle ==
  /\ cval = [ty |-> "none", v |-> << >>]
  /\ cenc = NotCalled
  /\ cdec = NotCalled
  /\ cstage = "idle"

\* the tuple (principal, ts_ms, nonce, body) of an envelope
NoTuple == [principal |-> << >>, ts_ms |-> 0, nonce |-> << >>, body |-> << >>]

\* nothing is signed or verified
SigningIdle ==
  /\ signed = NoTuple
  /\ claimed = NoTuple
  /\ sigmsg = [key |-> None, bytes |-> << >>]
  /\ verdict = "not called"
  /\ gstage = "idle"

\* execute_invoke was not called
InvokeIdle ==
  /\ ibunker = Bunker_new
  /\ ireq = [agent_id |-> None]
  /\ ires = [err |-> "not called", msg |-> ""]
  /\ spawned = << >>
  /\ istage = "idle"

\* the mutexes of SharedState, of the sessions and of the write handles
Mutexes ==
  {<<"replay", "-">>, <<"repeaters", "-">>, <<"pending", "-">>}
  \cup {<<"registered_actions", r>> : r \in RepeaterConns}
  \cup {<<"write", c>> : c \in Conns}

\* no thread holds or requests a mutex
LocksIdle ==
  /\ owner = [m \in Mutexes |-> None]
  /\ todo = [t \in Conns |-> << >>]
  /\ ended = {}
  /\ npaths = 0

BrokerInit(scripts) ==
  /\ now = 0
  /\ replay = EmptyCache
  /\ repeaters = [r \in SessionKeys |-> NoSession]
  /\ pending = [q \in RequestIds |-> None]
  /\ pc = [c \in Conns |-> "read"]
  /\ payload = [c \in Conns |-> NoPayload]
  /\ now_ms = [c \in Conns |-> 0]
  /\ session = [c \in Conns |-> NoSession]
  /\ agent = [c \in Conns |-> None]
  /\ repeater_id_for_conn = [c \in Conns |-> None]
  /\ out = [c \in Conns |-> << >>]
  /\ \E s \in scripts : wire = s.frames /\ horizon = s.horizon
  /\ nframes = 0
  /\ heard = [c \in Conns |-> 0]
  /\ arrived = [c \in Conns |-> 0]
  /\ sessions_ever = {}
  /\ accepted = {}
  /\ inserted = [q \in RequestIds |-> << >>]
  /\ write_lock = [w \in Conns |-> None]
  /\ stream = [w \in Conns |-> << >>]
  /\ wpc = [t \in Conns |-> NotWriting]
  /\ nwrites = 0
  /\ Running

\* the broker of the echo deployment beside a sealed bunker file
Quiet ==
  /\ BrokerInit({ScriptEcho})
  /\ AdminStart({Sealed({"op1"}, GoodDoc, 0)})

InitWith(scripts) ==
  /\ BrokerInit(scripts)
  /\ AdminStart({Sealed({"op1"}, GoodDoc, 0)})
  /\ FramingIdle
  /\ CodecIdle
  /\ SigningIdle
  /\ InvokeIdle
  /\ LocksIdle

Init == InitWith(Scripts)

\* the peer of connection w has not closed it: a write to it succeeds
WriteOk(w) == pc[w] # "done"

\* send_error: the unsigned error envelope the broker synthesizes
ErrorEnvelope(request_id, code) ==
  Payload("ok", "Error", "turret", now, "zero",
          Body("error", request_id, "", "", {}, code), "zero", FALSE)

\* the wall clock advances
Tick ==
  /\ now < horizon
  /\ now' = now + 1
  /\ UNCHANGED <<replay, repeaters, pending, pc, payload, now_ms, session, agent,
                 repeater_id_for_conn, out, wire, horizon, nframes, heard, arrived, sessions_ever, accepted, inserted, wvars, svars, avars, pvars>>

\* mutant of idle: the next frame is read while a forward is still to be made
idle_or_forwarding(c) == pc[c] \in {"read", "fwd"}

\* the connection's thread is at the top of its loop, in read_frame
idle(c) == pc[c] = "read"

\* read_frame, Envelope::decode, now_ms(), lookup_vk
Read(c, k, f) ==
  /\ idle(c)
  /\ <<k, f>> \in wire[c]
  /\ f.wire \in {"ok"} \cup DecodeErrors
  /\ nframes < MaxFrames
  /\ nframes' = nframes + 1
  /\ heard' = [heard EXCEPT ![c] = Len(out[c])]
  /\ arrived' = [arrived EXCEPT ![c] = @ + 1]
  /\ wire' = [wire EXCEPT ![c] = @ \ {<<k, f>>}]
  /\ IF ~Envelope_decodes(f) \/ lookup_vk(Envelope_decode(f).principal) = None
     THEN /\ pc' = [pc EXCEPT ![c] = "err"]
          /\ UNCHANGED <<payload, now_ms>>
     ELSE /\ pc' = [pc EXCEPT ![c] = "replay"]
          /\ payload' = [payload EXCEPT ![c] = f]
          /\ now_ms' = [now_ms EXCEPT ![c] = now]
  /\ UNCHANGED <<now, replay, repeaters, pending, session, agent,
                 repeater_id_for_conn, out, horizon, sessions_ever, accepted, inserted, wvars, svars, avars, pvars>>

\* read_frame fails with an I/O or framing error other than EOF
ReadErr(c) ==
  /\ pc[c] = "read"
  /\ <<1, IoErr>> \in wire[c]
  /\ pc' = [pc EXCEPT ![c] = "err"]
  /\ UNCHANGED <<now, replay, repeaters, pending, payload, now_ms, session, agent,
                 repeater_id_for_conn, out, wire, horizon, nframes, heard, arrived, sessions_ever, accepted, inserted, wvars, svars, avars, pvars>>

\* read_frame meets EOF: the loop breaks and the session is dropped
ReadEof(c) ==
  /\ pc[c] = "read"
  /\ <<1, Eof>> \in wire[c]
  /\ pc' = [pc EXCEPT ![c] = "done"]
  /\ repeaters' = IF repeater_id_for_conn[c] # None
                  THEN [repeaters EXCEPT ![repeater_id_for_conn[c]] = NoSession]
                  ELSE repeaters
  /\ UNCHANGED <<now, replay, pending, payload, now_ms, session, agent,
                 repeater_id_for_conn, out, wire, horizon, nframes, heard, arrived, sessions_ever, accepted, inserted, wvars, svars, avars, pvars>>

\* the shared mutexes connection c's thread holds between two of its steps:
\* the replay mutex while it sends the Error(Replay) of a rejected Invoke (the
\* guard of the replay block is alive across that send_error); the session
\* and pending guards are dropped within the step that takes them
held(c) == IF pc[c] = "replay_err" THEN {"replay"} ELSE {}

\* the mutex m is free for a thread to lock
lock_free(m) == \A d \in Conns : m \notin held(d)

\* mutant of req_id: the endpoint is not looked at
req_id_any_endpoint(k, env) ==
  IF env.msg_type = "Invoke" /\ InvokeBody_decodes(env.body)
  THEN env.body.request_id ELSE None

\* the request id for the error reply to a rejected frame: that of an Invoke
\* on the agent endpoint whose body decodes, otherwise none
req_id(k, env) ==
  IF k = "Agent" /\ env.msg_type = "Invoke" /\ InvokeBody_decodes(env.body)
  THEN env.body.request_id ELSE None

\* the replay block: check_and_record under the replay mutex; a rejected
\* agent Invoke whose body yields a request id goes on to send its error
\* with the mutex still held, any other rejected frame is dropped
ReplayCheck(c) ==
  LET env == Envelope_decode(payload[c])
      r   == check_and_record(replay, now_ms[c], env.ts_ms, env.principal, env.nonce)
  IN
  /\ pc[c] = "replay"
  /\ lock_free("replay")
  /\ replay' = r[2]
  /\ accepted' = IF r[1] = "Ok"
                  THEN accepted \cup
                         {<<env.principal, env.nonce, env.ts_ms, now_ms[c]>>}
                  ELSE accepted
  /\ IF r[1] = "Ok"
     THEN /\ pc' = [pc EXCEPT ![c] = "dispatch"]
          /\ UNCHANGED payload
     ELSE IF req_id(kind(c), env) # None
     THEN /\ pc' = [pc EXCEPT ![c] = "replay_err"]
          /\ UNCHANGED payload
     ELSE /\ pc' = [pc EXCEPT ![c] = "read"]
          /\ payload' = [payload EXCEPT ![c] = NoPayload]
  /\ UNCHANGED <<now, repeaters, pending, now_ms, session, agent,
                 repeater_id_for_conn, out, wire, horizon, nframes, heard, arrived, sessions_ever, inserted, wvars, svars, avars, pvars>>

\* the connection's loop goes back to read_frame (continue)
Continue(c) ==
  /\ pc' = [pc EXCEPT ![c] = "read"]
  /\ payload' = [payload EXCEPT ![c] = NoPayload]

\* the connection's loop returns an error (the ? operator)
ReturnErr(c) ==
  /\ pc' = [pc EXCEPT ![c] = "err"]
  /\ payload' = [payload EXCEPT ![c] = NoPayload]

\* mutant of SendError: the continue after send_error is missing and the
\* handler goes on to the pending block
SendError_falls_through(c, request_id, code) ==
  /\ out' = [out EXCEPT ![c] = Append(@,
               Written(ErrorEnvelope(request_id, code), payload[c], c, "error",
                       NoSession))]
  /\ pc' = [pc EXCEPT ![c] = "pend"]
  /\ UNCHANGED payload

\* send_error on the connection's own write handle, then continue
SendError(c, request_id, code) ==
  /\ out' = [out EXCEPT ![c] = Append(@,
               Written(ErrorEnvelope(request_id, code), payload[c], c, "error",
                       NoSession))]
  /\ Continue(c)

\* the Error(Replay) of a rejected Invoke, written inside the replay block;
\* leaving the block releases the replay mutex
ReplayError(c) ==
  /\ pc[c] = "replay_err"
  /\ SendError(c, req_id(kind(c), Envelope_decode(payload[c])), "Replay")
  /\ UNCHANGED <<now, replay, repeaters, pending, now_ms, session, agent,
                 repeater_id_for_conn, wire, horizon, nframes, heard, arrived, sessions_ever, accepted, inserted, wvars, svars, avars, pvars>>

\* crypto::verify fails: the loop returns BadSignature
VerifyFail(c) ==
  LET env == Envelope_decode(payload[c]) IN
  /\ pc[c] = "dispatch"
  /\ ~verify(lookup_vk(env.principal), env)
  /\ ReturnErr(c)
  /\ UNCHANGED <<now, replay, repeaters, pending, now_ms, session, agent,
                 repeater_id_for_conn, out, wire, horizon, nframes, heard, arrived, sessions_ever, accepted, inserted, wvars, svars, avars, pvars>>

\* mutant of reg_actions: every advertised action is kept
reg_actions_advertised(body) == body.actions

\* the action set a Register leaves: advertised, UTF-8, owned by repeater_id
reg_actions(body) ==
  {a \in body.actions :
     Utf8(a) /\ a \in DOMAIN Bunker.actions /\ Bunker.actions[a] = body.repeater_id}

\* mutant of reps_insert: a session already in the table is kept
reps_insert_if_absent(reps, repeater_id, sess) ==
  IF reps[repeater_id] = NoSession
  THEN [reps EXCEPT ![repeater_id] = sess] ELSE reps

\* reps.insert(repeater_id, session): the table afterwards
reps_insert(reps, repeater_id, sess) == [reps EXCEPT ![repeater_id] = sess]

\* (PeerKind::Repeater, MessageType::Register)
Register(c) ==
  LET env  == Envelope_decode(payload[c])
      body == env.body
      sess == [write |-> c, registered_actions |-> reg_actions(body)]
  IN
  /\ pc[c] = "dispatch"
  /\ verify(lookup_vk(env.principal), env)
  /\ kind(c) = "Repeater" /\ env.msg_type = "Register"
  /\ IF ~RegisterBody_decodes(body)
     THEN /\ ReturnErr(c)
          /\ UNCHANGED <<repeaters, repeater_id_for_conn, sessions_ever>>
     ELSE IF \/ env.principal # body.repeater_id
             \/ ~Utf8(body.repeater_id)
             \/ body.repeater_id \notin Bunker.repeaters
     THEN /\ Continue(c)
          /\ UNCHANGED <<repeaters, repeater_id_for_conn, sessions_ever>>
     ELSE /\ repeaters' = reps_insert(repeaters, body.repeater_id, sess)
          /\ repeater_id_for_conn' =
               [repeater_id_for_conn EXCEPT ![c] = body.repeater_id]
          /\ sessions_ever' = sessions_ever \cup
               {[repeater_id |-> body.repeater_id, session |-> sess,
                 register |-> payload[c],
                 seq |-> 1 + Cardinality({s \in sessions_ever :
                                            s.repeater_id = body.repeater_id})]}
          /\ Continue(c)
  /\ UNCHANGED <<now, replay, pending, now_ms, session, agent, out, wire, horizon,
                 nframes, heard, arrived, accepted, inserted, wvars, svars, avars, pvars>>

\* reps.get(&repeater_id).cloned()
reps_get(reps, repeater_id) ==
  IF repeater_id \in DOMAIN reps THEN reps[repeater_id] ELSE NoSession

\* permissions.get(agent_id).map(|s| s.contains(action)).unwrap_or(false)
allowed(agent_id, action) ==
  agent_id \in DOMAIN Bunker.permissions /\ action \in Bunker.permissions[agent_id]

\* mutant of InvokeOutcome: the session's live action set is not consulted
InvokeOutcome_no_has_action(principal, action, reps) ==
  IF ~Utf8(principal) THEN "Unauthenticated"
  ELSE IF ~Utf8(action) THEN "BadRequest"
  ELSE IF ~allowed(principal, action) THEN "Denied"
  ELSE IF action \notin DOMAIN Bunker.actions THEN "UnknownAction"
  ELSE IF reps_get(reps, Bunker.actions[action]) = NoSession THEN "NoRepeater"
  ELSE "Forward"

\* mutant of InvokeOutcome: the action is resolved before the permission check
InvokeOutcome_resolve_first(principal, action, reps) ==
  IF ~Utf8(principal) THEN "Unauthenticated"
  ELSE IF ~Utf8(action) THEN "BadRequest"
  ELSE IF action \notin DOMAIN Bunker.actions THEN "UnknownAction"
  ELSE IF ~allowed(principal, action) THEN "Denied"
  ELSE IF reps_get(reps, Bunker.actions[action]) = NoSession THEN "NoRepeater"
  ELSE IF action \notin reps_get(reps, Bunker.actions[action]).registered_actions
       THEN "NoRepeater"
  ELSE "Forward"

\* mutant of InvokeOutcome: an action nobody owns is reported as NoRepeater
InvokeOutcome_unknown_as_norepeater(principal, action, reps) ==
  IF ~Utf8(principal) THEN "Unauthenticated"
  ELSE IF ~Utf8(action) THEN "BadRequest"
  ELSE IF ~allowed(principal, action) THEN "Denied"
  ELSE IF action \notin DOMAIN Bunker.actions THEN "NoRepeater"
  ELSE IF reps_get(reps, Bunker.actions[action]) = NoSession THEN "NoRepeater"
  ELSE IF action \notin reps_get(reps, Bunker.actions[action]).registered_actions
       THEN "NoRepeater"
  ELSE "Forward"

\* the outcome of the checks of an Invoke, in the order the code makes them:
\* an error code, or "Forward"
InvokeOutcome(principal, action, reps) ==
  IF ~Utf8(principal) THEN "Unauthenticated"
  ELSE IF ~Utf8(action) THEN "BadRequest"
  ELSE IF ~allowed(principal, action) THEN "Denied"
  ELSE IF action \notin DOMAIN Bunker.actions THEN "UnknownAction"
  ELSE IF reps_get(reps, Bunker.actions[action]) = NoSession THEN "NoRepeater"
  ELSE IF action \notin reps_get(reps, Bunker.actions[action]).registered_actions
       THEN "NoRepeater"
  ELSE "Forward"

\* (PeerKind::Agent, MessageType::Invoke), up to the session lookup
Invoke(c) ==
  LET env  == Envelope_decode(payload[c])
      body == env.body
      res  == InvokeOutcome(env.principal, body.action, repeaters)
  IN
  /\ pc[c] = "dispatch"
  /\ verify(lookup_vk(env.principal), env)
  /\ kind(c) = "Agent" /\ env.msg_type = "Invoke"
  /\ IF ~InvokeBody_decodes(body)
     THEN ReturnErr(c) /\ UNCHANGED <<session, out>>
     ELSE IF res # "Forward"
     THEN SendError(c, body.request_id, res) /\ UNCHANGED session
     ELSE /\ session' = [session EXCEPT
                           ![c] = reps_get(repeaters, Bunker.actions[body.action])]
          /\ pc' = [pc EXCEPT ![c] = "pend"]
          /\ UNCHANGED <<payload, out>>
  /\ UNCHANGED <<now, replay, repeaters, pending, now_ms, agent,
                 repeater_id_for_conn, wire, horizon, nframes, heard, arrived, sessions_ever, accepted, inserted, wvars, svars, avars, pvars>>

\* mutant of pending_insert: an entry already in the table is kept
pending_insert_if_absent(pend, request_id, w) ==
  IF pend[request_id] = None THEN [pend EXCEPT ![request_id] = w] ELSE pend

\* pending.insert(request_id, AgentHandle { write }): the table afterwards
pending_insert(pend, request_id, w) == [pend EXCEPT ![request_id] = w]

\* the pending block of an Invoke that passed every check
InvokePend(c) ==
  LET body == Envelope_decode(payload[c]).body IN
  /\ pc[c] = "pend"
  /\ pending' = pending_insert(pending, body.request_id, c)
  /\ inserted' = [inserted EXCEPT ![body.request_id] = Append(@, c)]
  /\ pc' = [pc EXCEPT ![c] = "fwd"]
  /\ UNCHANGED <<now, replay, repeaters, payload, now_ms, session, agent,
                 repeater_id_for_conn, out, wire, horizon, nframes, heard, arrived, sessions_ever, accepted, wvars, svars, avars, pvars>>

\* mutant of forward_bytes: the decoded envelope is encoded again
forward_bytes_reencoded(pl) == Envelope_encode(Envelope_decode(pl))

\* the bytes the forward writes: the payload as received
forward_bytes(pl) == pl

\* write_frame(session.write, &payload)
InvokeForward(c) ==
  /\ pc[c] = "fwd"
  /\ IF WriteOk(session[c].write)
     THEN /\ out' = [out EXCEPT ![session[c].write] = Append(@,
                       Written(forward_bytes(payload[c]), payload[c], c, "forward",
                               session[c]))]
          /\ Continue(c)
     ELSE ReturnErr(c) /\ UNCHANGED out
  /\ session' = [session EXCEPT ![c] = NoSession]
  /\ UNCHANGED <<now, replay, repeaters, pending, now_ms, agent,
                 repeater_id_for_conn, wire, horizon, nframes, heard, arrived, sessions_ever, accepted, inserted, wvars, svars, avars, pvars>>

\* mutant of pending_remove: the entry is read and left in the table
pending_get(pend, request_id) == pend

\* pending.remove(request_id): the table afterwards
pending_remove(pend, request_id) == [pend EXCEPT ![request_id] = None]

\* (PeerKind::Repeater, Result | Error): decode, then pending.remove
Reply(c) ==
  LET env  == Envelope_decode(payload[c])
      body == env.body
      ok   == IF env.msg_type = "Result" THEN ResultBody_decodes(body)
              ELSE ErrorBody_decodes(body)
  IN
  /\ pc[c] = "dispatch"
  /\ verify(lookup_vk(env.principal), env)
  /\ kind(c) = "Repeater" /\ env.msg_type \in {"Result", "Error"}
  /\ IF ~ok
     THEN ReturnErr(c) /\ UNCHANGED <<pending, agent>>
     ELSE /\ pending' = pending_remove(pending, body.request_id)
          /\ IF pending[body.request_id] = None
             THEN Continue(c) /\ UNCHANGED agent
             ELSE /\ agent' = [agent EXCEPT ![c] = pending[body.request_id]]
                  /\ pc' = [pc EXCEPT ![c] = "reply"]
                  /\ UNCHANGED payload
  /\ UNCHANGED <<now, replay, repeaters, now_ms, session, repeater_id_for_conn, out,
                 wire, horizon, nframes, heard, arrived, sessions_ever, accepted, inserted, wvars, svars, avars, pvars>>

\* the bytes route_reply writes: the payload as received
reply_bytes(pl) == pl

\* route_reply: write_frame(agent.write, payload), the result ignored
RouteWrite(c) ==
  /\ pc[c] = "reply"
  /\ out' = IF WriteOk(agent[c])
            THEN [out EXCEPT ![agent[c]] = Append(@,
                    Written(reply_bytes(payload[c]), payload[c], c, "reply",
                            NoSession))]
            ELSE out
  /\ agent' = [agent EXCEPT ![c] = None]
  /\ Continue(c)
  /\ UNCHANGED <<now, replay, repeaters, pending, now_ms, session,
                 repeater_id_for_conn, wire, horizon, nframes, heard, arrived, sessions_ever, accepted, inserted, wvars, svars, avars, pvars>>

\* any other (peer kind, message type) pair is ignored
Ignore(c) ==
  LET env == Envelope_decode(payload[c]) IN
  /\ pc[c] = "dispatch"
  /\ verify(lookup_vk(env.principal), env)
  /\ ~(kind(c) = "Repeater" /\ env.msg_type \in {"Register", "Result", "Error"})
  /\ ~(kind(c) = "Agent" /\ env.msg_type = "Invoke")
  /\ Continue(c)
  /\ UNCHANGED <<now, replay, repeaters, pending, now_ms, session, agent,
                 repeater_id_for_conn, out, wire, horizon, nframes, heard, arrived, sessions_ever, accepted, inserted, wvars, svars, avars, pvars>>

Next ==
  \/ Tick
  \/ \E c \in Conns : \E kf \in wire[c] : Read(c, kf[1], kf[2])
  \/ \E c \in Conns : ReadErr(c)
  \/ \E c \in Conns : ReadEof(c)
  \/ \E c \in Conns : ReplayCheck(c)
  \/ \E c \in Conns : ReplayError(c)
  \/ \E c \in Conns : VerifyFail(c)
  \/ \E c \in Conns : Register(c)
  \/ \E c \in Conns : Invoke(c)
  \/ \E c \in Conns : InvokePend(c)
  \/ \E c \in Conns : InvokeForward(c)
  \/ \E c \in Conns : Reply(c)
  \/ \E c \in Conns : RouteWrite(c)
  \/ \E c \in Conns : Ignore(c)

Spec == Init /\ [][Next]_vars

(* ---------------------------------------------------------------------- *)
(* The write handles, byte by byte (server.rs write call sites and          *)
(* framing::write_frame)                                                    *)
(* ---------------------------------------------------------------------- *)
\* write_frame calls followed
MaxWrites == 2

\* the broker state above the byte level
bvars == <<now, replay, repeaters, pending, pc, payload, now_ms, session, agent,
           repeater_id_for_conn, out, wire, horizon, nframes, heard, arrived,
           sessions_ever, accepted, inserted>>

\* the write_frame call sites of thread t and the connections they write to:
\* an agent's thread forwards to a repeater's handle and sends errors on its
\* own; a repeater's thread routes replies to an agent's handle
CallSites(t) ==
  IF t \in AgentConns
  THEN {<<"forward", w>> : w \in RepeaterConns} \cup {<<"send_error", t>>}
  ELSE {<<"route_reply", w>> : w \in AgentConns}

\* mutant of lock: the Mutex is taken whoever holds it
lock_unguarded(w) == TRUE

\* write.lock(): the Mutex of connection w's write handle can be taken
lock(w) == write_lock[w] = None

\* let mut w = write.lock().unwrap()
LockWrite(t, site) ==
  /\ wpc[t].at = "idle"
  /\ nwrites < MaxWrites
  /\ lock(site[2])
  /\ write_lock' = [write_lock EXCEPT ![site[2]] = t]
  /\ nwrites' = nwrites + 1
  /\ wpc' = [wpc EXCEPT ![t] = [at |-> "len", w |-> site[2], frame |-> nwrites + 1]]
  /\ UNCHANGED <<stream, bvars, svars, avars, pvars>>

\* write_frame: w.write_all(&len_be)
WriteLen(t) ==
  /\ wpc[t].at = "len"
  /\ stream' = [stream EXCEPT ![wpc[t].w] = Append(@, <<"len", wpc[t].frame, t>>)]
  /\ wpc' = [wpc EXCEPT ![t].at = "payload"]
  /\ UNCHANGED <<write_lock, nwrites, bvars, svars, avars, pvars>>

\* write_frame: w.write_all(payload)
WritePayload(t) ==
  /\ wpc[t].at = "payload"
  /\ stream' = [stream EXCEPT ![wpc[t].w] = Append(@, <<"payload", wpc[t].frame, t>>)]
  /\ wpc' = [wpc EXCEPT ![t].at = "unlock"]
  /\ UNCHANGED <<write_lock, nwrites, bvars, svars, avars, pvars>>

\* a write_all call fails: write_frame returns the error
WriteFails(t) ==
  /\ wpc[t].at \in {"len", "payload"}
  /\ wpc' = [wpc EXCEPT ![t].at = "unlock"]
  /\ UNCHANGED <<write_lock, stream, nwrites, bvars, svars, avars, pvars>>

\* the guard goes out of scope
Unlock(t) ==
  /\ wpc[t].at = "unlock"
  /\ write_lock' = [write_lock EXCEPT ![wpc[t].w] = None]
  /\ wpc' = [wpc EXCEPT ![t] = NotWriting]
  /\ UNCHANGED <<stream, nwrites, bvars, svars, avars, pvars>>

WriteInit == InitWith({ScriptEcho})

WriteNext ==
  \/ \E t \in Conns : \E site \in CallSites(t) : LockWrite(t, site)
  \/ \E t \in Conns : WriteLen(t)
  \/ \E t \in Conns : WritePayload(t)
  \/ \E t \in Conns : WriteFails(t)
  \/ \E t \in Conns : Unlock(t)

WriteSpec == WriteInit /\ [][WriteNext]_vars

(* ---------------------------------------------------------------------- *)
(* Server::run and accept_loop (server.rs:96-148)                          *)
(* ---------------------------------------------------------------------- *)
\* connections a listener's peers make in all
MaxConnects == 1

bwvars == <<now, replay, repeaters, pending, pc, payload, now_ms, session, agent,
            repeater_id_for_conn, out, wire, horizon, nframes, heard, arrived,
            sessions_ever, accepted, inserted, write_lock, stream, wpc, nwrites>>

\* a holder of stop_flag() stores true
SetStop ==
  /\ ~stop
  /\ stop' = TRUE
  /\ UNCHANGED <<run_pc, apc, backlog, accepts, peers, saw_stop, bwvars, avars, pvars>>

\* a peer connects to the listener's socket, which exists until accept_loop
\* returns and drops the listener
Connect(k) ==
  /\ apc[k] # "exited"
  /\ backlog[k] + accepts[k] < Cardinality({c \in Conns : kind(c) = k}) + MaxConnects
  /\ backlog' = [backlog EXCEPT ![k] = @ + 1]
  /\ UNCHANGED <<stop, run_pc, apc, accepts, peers, saw_stop, bwvars, avars, pvars>>

\* mutant of stop_load: the loop condition is always true
stop_load_never(k) == FALSE

\* stop.load(Ordering::Relaxed) in the loop of listener k
stop_load(k) == stop

\* while !stop.load(Relaxed)
LoopCheck(k) ==
  /\ apc[k] = "check"
  /\ IF stop_load(k)
     THEN /\ apc' = [apc EXCEPT ![k] = "exited"]
          /\ saw_stop' = [saw_stop EXCEPT ![k] = TRUE]
     ELSE /\ apc' = [apc EXCEPT ![k] = "accept"]
          /\ UNCHANGED saw_stop
  /\ UNCHANGED <<stop, run_pc, backlog, accepts, peers, bwvars, avars, pvars>>

\* listener.accept() returns a stream: a detached thread is spawned for it
AcceptOk(k) ==
  /\ apc[k] = "accept"
  /\ backlog[k] > 0
  /\ backlog' = [backlog EXCEPT ![k] = @ - 1]
  /\ accepts' = [accepts EXCEPT ![k] = @ + 1]
  /\ peers' = peers + 1
  /\ apc' = [apc EXCEPT ![k] = "check"]
  /\ UNCHANGED <<stop, run_pc, saw_stop, bwvars, avars, pvars>>

\* listener.accept() returns WouldBlock on the nonblocking listener
AcceptWouldBlock(k) ==
  /\ apc[k] = "accept"
  /\ backlog[k] = 0
  /\ apc' = [apc EXCEPT ![k] = "sleep"]
  /\ UNCHANGED <<stop, run_pc, backlog, accepts, peers, saw_stop, bwvars, avars, pvars>>

\* listener.accept() returns another error
AcceptErr(k) ==
  /\ apc[k] = "accept"
  /\ apc' = [apc EXCEPT ![k] = "sleep"]
  /\ UNCHANGED <<stop, run_pc, backlog, accepts, peers, saw_stop, bwvars, avars, pvars>>

\* thread::sleep of 10 ms or 50 ms is over
Sleep(k) ==
  /\ apc[k] = "sleep"
  /\ apc' = [apc EXCEPT ![k] = "check"]
  /\ UNCHANGED <<stop, run_pc, backlog, accepts, peers, saw_stop, bwvars, avars, pvars>>

\* a spawned peer_read_loop returns; nothing joins it
PeerEnds ==
  /\ peers > 0
  /\ peers' = peers - 1
  /\ UNCHANGED <<stop, run_pc, apc, backlog, accepts, saw_stop, bwvars, avars, pvars>>

\* agent_thread.join()
JoinAgent ==
  /\ run_pc = "join_agent"
  /\ apc["Agent"] = "exited"
  /\ run_pc' = "join_repeater"
  /\ UNCHANGED <<stop, apc, backlog, accepts, peers, saw_stop, bwvars, avars, pvars>>

\* repeater_thread.join(); Ok(())
JoinRepeater ==
  /\ run_pc = "join_repeater"
  /\ apc["Repeater"] = "exited"
  /\ run_pc' = "returned"
  /\ UNCHANGED <<stop, apc, backlog, accepts, peers, saw_stop, bwvars, avars, pvars>>

\* a step of the accept loop of listener k
LoopStep(k) ==
  \/ LoopCheck(k)
  \/ AcceptOk(k)
  \/ AcceptWouldBlock(k)
  \/ AcceptErr(k)
  \/ Sleep(k)

StopInit == InitWith({ScriptEcho})

StopNext ==
  \/ SetStop
  \/ \E k \in PeerKinds : Connect(k)
  \/ \E k \in PeerKinds : LoopCheck(k)
  \/ \E k \in PeerKinds : AcceptOk(k)
  \/ \E k \in PeerKinds : AcceptWouldBlock(k)
  \/ \E k \in PeerKinds : AcceptErr(k)
  \/ \E k \in PeerKinds : Sleep(k)
  \/ PeerEnds
  \/ JoinAgent
  \/ JoinRepeater

\* the accept loops and Server::run are threads the scheduler keeps running;
\* peers and the holder of the flag owe nothing
StopSpec ==
  /\ StopInit
  /\ [][StopNext]_vars
  /\ \A k \in PeerKinds : WF_vars(LoopStep(k))
  /\ WF_vars(JoinAgent \/ JoinRepeater)

(* ---------------------------------------------------------------------- *)
(* The turret commands on the bunker file (bin/turret.rs)                   *)
(* ---------------------------------------------------------------------- *)
\* turret commands run one after another
MaxCommands == 2

\* the command ends with an error
Ends(msg) ==
  /\ adm' = Idle
  /\ last' = [last EXCEPT !.result = msg]

\* a command starts and runs up to its call of write_bunker_encrypted; the
\* bunker file is read once, by open_with_identity
Begin(cmd) ==
  /\ adm.pc = "idle"
  /\ ncmds < MaxCommands
  /\ LET r == Prepare(file, cmd) IN
       /\ adm' = IF r.ok THEN [pc |-> "recips", cmd |-> cmd, b |-> r.v] ELSE Idle
       /\ last' = [cmd |-> cmd, pre |-> file,
                   result |-> IF r.ok THEN "running" ELSE r.err]
  /\ ncmds' = ncmds + 1
  /\ UNCHANGED <<file, tmp_out, tmp_recips, fired, snapshot, bwvars, svars, pvars>>

\* std::fs::write(&tmp_recips, recips)
WriteRecipients ==
  /\ adm.pc = "recips"
  /\ tmp_recips' = [exists |-> TRUE, lines |-> recips_of(adm.b)]
  /\ adm' = [adm EXCEPT !.pc = "encrypt"]
  /\ UNCHANGED <<file, tmp_out, ncmds, fired, snapshot, last, bwvars, svars, pvars>>

\* rage --encrypt -R tmp_recips -o tmp_out exits with success
Encrypt ==
  /\ adm.pc = "encrypt"
  /\ rage_recipients(tmp_recips.lines) # {}
  /\ rage_recipients(tmp_recips.lines) \subseteq ValidRecipients
  /\ LET sealed == Sealed(rage_recipients(tmp_recips.lines),
                          Bunker_encode(adm.b), ncmds) IN
       IF seal_path("bunker") = "bunker"
       THEN file' = sealed /\ UNCHANGED tmp_out
       ELSE tmp_out' = sealed /\ UNCHANGED file
  /\ adm' = [adm EXCEPT !.pc = "rename"]
  /\ UNCHANGED <<tmp_recips, ncmds, fired, snapshot, last, bwvars, svars, pvars>>

\* std::fs::rename(&tmp_out, path)
Rename ==
  /\ adm.pc = "rename"
  /\ IF tmp_out.kind = "absent"
     THEN Ends("rename") /\ UNCHANGED <<file, tmp_out>>
     ELSE /\ file' = tmp_out
          /\ tmp_out' = Absent
          /\ adm' = [adm EXCEPT !.pc = "cleanup"]
          /\ UNCHANGED last
  /\ UNCHANGED <<tmp_recips, ncmds, fired, snapshot, bwvars, svars, pvars>>

\* let _ = std::fs::remove_file(&tmp_recips); Ok(())
Cleanup ==
  /\ adm.pc = "cleanup"
  /\ tmp_recips' \in {NoRecipients, tmp_recips}
  /\ Ends("ok")
  /\ UNCHANGED <<file, tmp_out, ncmds, fired, snapshot, bwvars, svars, pvars>>

\* a step of write_bunker_encrypted returns an error, or the process dies
\* there: the write of the recipients file, the rage run (a recipient line
\* it does not take, or any other failure; its output may be left cut
\* short), the rename
StepFails ==
  /\ adm.pc \in {"recips", "encrypt", "rename"}
  /\ IF adm.pc = "encrypt"
     THEN IF seal_path("bunker") = "bunker"
          THEN file' \in {file, Partial} /\ UNCHANGED tmp_out
          ELSE tmp_out' \in {tmp_out, Partial} /\ UNCHANGED file
     ELSE UNCHANGED <<file, tmp_out>>
  /\ Ends(adm.pc)
  /\ UNCHANGED <<tmp_recips, ncmds, fired, snapshot, bwvars, svars, pvars>>

\* Engage up to run_daemon: fire_up with the host key and the operator key
Engage(operator) ==
  LET res == fire_up(file, "host", operator) IN
  /\ fired' = [res |-> res, operator |-> operator, enc |-> file]
  /\ snapshot' = IF res.ok THEN [installed |-> TRUE, v |-> res.v] ELSE NoSnapshot
  /\ UNCHANGED <<file, tmp_out, tmp_recips, adm, ncmds, last, bwvars, svars, pvars>>

AdminInit ==
  /\ BrokerInit({ScriptEcho})
  /\ AdminStart(InitialFiles)
  /\ FramingIdle
  /\ CodecIdle
  /\ SigningIdle
  /\ InvokeIdle
  /\ LocksIdle

AdminNext ==
  \/ \E cmd \in Commands : Begin(cmd)
  \/ WriteRecipients
  \/ Encrypt
  \/ Rename
  \/ Cleanup
  \/ StepFails
  \/ \E operator \in {None, "op1", "op2", "eve"} : Engage(operator)

AdminSpec == AdminInit /\ [][AdminNext]_vars

(* ---------------------------------------------------------------------- *)
(* Framing (src/src/framing.rs)                                            *)
(* ---------------------------------------------------------------------- *)
\* read_frame and write_frame calls followed on one stream
MaxCalls == 4

\* crate::MAX_FRAME_SIZE, scaled to payloads that can be enumerated
MAX_FRAME_SIZE == 2

\* the payloads handed to write_frame: up to MAX_FRAME_SIZE + 1 bytes
Payloads ==
  {<< >>, <<0>>, <<1>>, <<0, 1>>, <<1, 1>>, <<1, 0, 1>>}

\* what a peer has put on the stream before the first write_frame: nothing, a
\* header announcing MAX_FRAME_SIZE + 1 with and without a body, a larger
\* header, a header cut short, a body cut short
ForeignBytes ==
  {<< >>, <<0, 0, 0, MAX_FRAME_SIZE + 1>>, <<0, 0, 0, MAX_FRAME_SIZE + 1, 1, 1, 1>>,
   <<0, 1, 0, 0, 1>>, <<0, 0, 0>>, <<0, 0, 0, MAX_FRAME_SIZE, 1>>}

\* (n as u32).to_be_bytes(), for n below 2^32
to_be_bytes(n) ==
  <<(n \div 16777216) % 256, (n \div 65536) % 256, (n \div 256) % 256, n % 256>>

\* u32::from_be_bytes(len_be) as usize
from_be_bytes(b) == ((b[1] * 256 + b[2]) * 256 + b[3]) * 256 + b[4]

\* what is left of s after its first n bytes
Drop(s, n) == SubSeq(s, n + 1, Len(s))

\* the outcome of a framing call: the error, the buffer returned, the stream
\* afterwards
Outcome(err, buf, rest) == [err |-> err, buf |-> buf, rest |-> rest]

\* r.read_exact(buf) with buf of n bytes, on the in-memory stream s: the bytes
\* when s has n of them, else UnexpectedEof with an unspecified number of
\* bytes consumed
read_exact(s, n) ==
  IF Len(s) >= n
  THEN {Outcome("none", SubSeq(s, 1, n), Drop(s, n))}
  ELSE {Outcome("Io", << >>, Drop(s, k)) : k \in 0..Len(s)}

\* mutant of read_frame: a frame of exactly MAX_FRAME_SIZE bytes is refused
read_frame_below_max(r) ==
  UNION {IF h.err # "none" THEN {h}
         ELSE IF from_be_bytes(h.buf) >= MAX_FRAME_SIZE
              THEN {Outcome("FrameTooLarge", << >>, h.rest)}
              ELSE read_exact(h.rest, from_be_bytes(h.buf)) :
         h \in read_exact(r, 4)}

\* read_frame(r): its possible outcomes
read_frame(r) ==
  UNION {IF h.err # "none" THEN {h}
         ELSE IF from_be_bytes(h.buf) > MAX_FRAME_SIZE
              THEN {Outcome("FrameTooLarge", << >>, h.rest)}
              ELSE read_exact(h.rest, from_be_bytes(h.buf)) :
         h \in read_exact(r, 4)}

\* w.write_all(bytes) on the stream s: every byte is appended, or the call
\* fails after an unspecified number of them
write_all(s, bytes) ==
  {Outcome("none", << >>, s \o bytes)} \cup
  {Outcome("Io", << >>, s \o SubSeq(bytes, 1, k)) : k \in 0..(Len(bytes) - 1)}

\* write_frame(w, bytes): its possible outcomes
write_frame(w, bytes) ==
  IF Len(bytes) > MAX_FRAME_SIZE
  THEN {Outcome("FrameTooLarge", << >>, w)}
  ELSE UNION {IF h.err # "none" THEN {h} ELSE write_all(h.rest, bytes) :
              h \in write_all(w, to_be_bytes(Len(bytes)))}

\* the frames still whole in the stream after a write that appended n bytes
TrackWrite(t, bytes, o, n) ==
  IF o.err = "none"
  THEN [t EXCEPT !.sent = Append(@, bytes)]
  ELSE IF n = 0 THEN t ELSE [t EXCEPT !.torn = TRUE]

\* the frames still whole in the stream after a read that consumed n bytes
TrackRead(t, o, n) ==
  IF t.torn \/ n = 0 THEN t
  ELSE IF t.junk > 0
  THEN IF n <= t.junk THEN [t EXCEPT !.junk = @ - n] ELSE [t EXCEPT !.torn = TRUE]
  ELSE IF t.sent # << >> /\ n = 4 + Len(Head(t.sent))
  THEN [t EXCEPT !.sent = Tail(@), !.read_back = @ + 1]
  ELSE [t EXCEPT !.torn = TRUE]

\* a caller writes a frame
WriteFrame(bytes) ==
  /\ fcalls < MaxCalls
  /\ \E o \in write_frame(pipe, bytes) :
       /\ pipe' = o.rest
       /\ fres' = [op |-> "write", payload |-> bytes, err |-> o.err, buf |-> o.buf]
       /\ track' = TrackWrite(track, bytes, o, Len(o.rest) - Len(pipe))
  /\ fcalls' = fcalls + 1
  /\ UNCHANGED <<bwvars, svars, avars, cvars, gvars, ivars, lvars>>

\* a caller reads a frame
ReadFrame ==
  /\ fcalls < MaxCalls
  /\ \E o \in read_frame(pipe) :
       /\ pipe' = o.rest
       /\ fres' = [op |-> "read", payload |-> << >>, err |-> o.err, buf |-> o.buf]
       /\ track' = TrackRead(track, o, Len(pipe) - Len(o.rest))
  /\ fcalls' = fcalls + 1
  /\ UNCHANGED <<bwvars, svars, avars, cvars, gvars, ivars, lvars>>

\* the stream holds what a peer has sent so far
FramingStart ==
  /\ pipe \in ForeignBytes
  /\ track = [junk |-> Len(pipe), sent |-> << >>, torn |-> FALSE, read_back |-> 0]
  /\ fres = NoCall
  /\ fcalls = 0

FramingInit == Quiet /\ FramingStart /\ CodecIdle /\ SigningIdle /\ InvokeIdle /\ LocksIdle

FramingNext ==
  \/ \E bytes \in Payloads : WriteFrame(bytes)
  \/ ReadFrame

FramingSpec == FramingInit /\ [][FramingNext]_vars

(* ---------------------------------------------------------------------- *)
(* Envelope and body codecs, byte by byte (src/src/protocol.rs)            *)
(* ---------------------------------------------------------------------- *)
\* ENVELOPE_MAGIC, b"TRT1"
ENVELOPE_MAGIC == <<84, 82, 84, 49>>

PROTOCOL_VERSION == 1

\* the length of Envelope.sig, scaled with MAX_FRAME_SIZE
SIG_LEN == 2

\* MessageType as u16, and ErrorCode as u16
MessageType == [Register |-> 1, Invoke |-> 2, Result |-> 3, Error |-> 4]
ErrorCode ==
  [Unauthenticated |-> 1, Replay |-> 2, Denied |-> 3, UnknownAction |-> 4,
   NoRepeater |-> 5, BadRequest |-> 6, Internal |-> 7]

\* the outcome of a read on a cursor: the error, the value, the cursor afterwards
Got(v, rest) == [err |-> "none", val |-> v, rest |-> rest]
Bad(err) == [err |-> err, val |-> << >>, rest |-> << >>]

\* the outcome of encode and of decode
Encoded(bytes) == [err |-> "none", val |-> bytes]
Refused(err) == [err |-> err, val |-> << >>]

\* read_exact on a slice: the next n bytes, or an I/O error
take(s, n) == IF Len(s) >= n THEN Got(SubSeq(s, 1, n), Drop(s, n)) ELSE Bad("Io")

\* write_uN::<LittleEndian>: the k low bytes of n, least significant first
RECURSIVE to_le_bytes(_, _)
to_le_bytes(n, k) ==
  IF k = 0 THEN << >> ELSE <<n % 256>> \o to_le_bytes(n \div 256, k - 1)

\* mutant of from_le_bytes: the bytes are read most significant first
RECURSIVE from_le_bytes_reversed(_)
from_le_bytes_reversed(b) ==
  IF b = << >> THEN 0 ELSE b[Len(b)] + 256 * from_le_bytes_reversed(SubSeq(b, 1, Len(b) - 1))

\* read_uN::<LittleEndian>: the value of the bytes b
RECURSIVE from_le_bytes(_)
from_le_bytes(b) == IF b = << >> THEN 0 ELSE b[1] + 256 * from_le_bytes(Tail(b))

\* read_u16 / read_u32 / read_u64 ::<LittleEndian> on a cursor
read_le(s, k) ==
  IF take(s, k).err # "none" THEN Bad("Io")
  ELSE Got(from_le_bytes(take(s, k).val), take(s, k).rest)

\* read_bstr
read_bstr(s) ==
  LET h == take(s, 4) IN
  IF h.err # "none" THEN Bad("Io")
  ELSE IF from_be_bytes(h.val) > MAX_FRAME_SIZE THEN Bad("bstr too large")
  ELSE take(h.rest, from_be_bytes(h.val))

\* write_bstr succeeds
bstr_fits(b) == Len(b) <= MAX_FRAME_SIZE

\* write_bstr: the bytes appended when it succeeds
write_bstr(b) == to_be_bytes(Len(b)) \o b

\* MessageType::from_u16
from_u16(v) ==
  IF v \in {MessageType[t] : t \in DOMAIN MessageType}
  THEN Got(CHOOSE t \in DOMAIN MessageType : MessageType[t] = v, << >>)
  ELSE Bad("unknown message type")

\* Envelope::decode on bytes
Envelope_decode_bytes(bytes) ==
  LET magic     == take(bytes, 4)
      version   == read_le(magic.rest, 2)
      t         == read_le(version.rest, 2)
      principal == read_bstr(t.rest)
      ts_ms     == read_le(principal.rest, 8)
      nonce     == read_bstr(ts_ms.rest)
      body      == read_bstr(nonce.rest)
      sig_bytes == read_bstr(body.rest)
  IN
  IF magic.err # "none" THEN Refused(magic.err)
  ELSE IF magic.val # ENVELOPE_MAGIC THEN Refused("bad magic")
  ELSE IF version.err # "none" THEN Refused(version.err)
  ELSE IF version.val # PROTOCOL_VERSION THEN Refused("bad version")
  ELSE IF t.err # "none" THEN Refused(t.err)
  ELSE IF from_u16(t.val).err # "none" THEN Refused(from_u16(t.val).err)
  ELSE IF principal.err # "none" THEN Refused(principal.err)
  ELSE IF ts_ms.err # "none" THEN Refused(ts_ms.err)
  ELSE IF nonce.err # "none" THEN Refused(nonce.err)
  ELSE IF body.err # "none" THEN Refused(body.err)
  ELSE IF sig_bytes.err # "none" THEN Refused(sig_bytes.err)
  ELSE IF Len(sig_bytes.val) # SIG_LEN THEN Refused("bad signature length")
  ELSE Encoded([msg_type |-> from_u16(t.val).val, principal |-> principal.val,
                ts_ms |-> ts_ms.val, nonce |-> nonce.val, body |-> body.val,
                sig |-> sig_bytes.val])

\* Envelope::encode to bytes
Envelope_encode_bytes(e) ==
  IF ~bstr_fits(e.principal) \/ ~bstr_fits(e.nonce) \/ ~bstr_fits(e.body)
     \/ ~bstr_fits(e.sig)
  THEN Refused("bstr too large")
  ELSE Encoded(ENVELOPE_MAGIC \o to_le_bytes(PROTOCOL_VERSION, 2)
               \o to_le_bytes(MessageType[e.msg_type], 2)
               \o write_bstr(e.principal) \o to_le_bytes(e.ts_ms, 8)
               \o write_bstr(e.nonce) \o write_bstr(e.body) \o write_bstr(e.sig))

\* RegisterBody::decode, the loop over action_count
RECURSIVE read_actions(_, _)
read_actions(s, action_count) ==
  IF action_count = 0 THEN Got(<< >>, s)
  ELSE LET a    == read_bstr(s)
           more == read_actions(a.rest, action_count - 1)
       IN IF a.err # "none" THEN Bad(a.err)
          ELSE IF more.err # "none" THEN Bad(more.err)
          ELSE Got(<<a.val>> \o more.val, more.rest)

RegisterBody_decode(b) ==
  LET repeater_id  == read_bstr(b)
      action_count == read_le(repeater_id.rest, 4)
      actions      == read_actions(action_count.rest, action_count.val)
  IN
  IF repeater_id.err # "none" THEN Refused(repeater_id.err)
  ELSE IF action_count.err # "none" THEN Refused(action_count.err)
  ELSE IF actions.err # "none" THEN Refused(actions.err)
  ELSE Encoded([repeater_id |-> repeater_id.val, actions |-> actions.val])

\* RegisterBody::encode, the loop over self.actions
RECURSIVE write_actions(_)
write_actions(actions) ==
  IF actions = << >> THEN << >>
  ELSE write_bstr(Head(actions)) \o write_actions(Tail(actions))

RegisterBody_encode(r) ==
  IF ~bstr_fits(r.repeater_id)
     \/ \E i \in DOMAIN r.actions : ~bstr_fits(r.actions[i])
  THEN Refused("bstr too large")
  ELSE Encoded(write_bstr(r.repeater_id) \o to_le_bytes(Len(r.actions), 4)
               \o write_actions(r.actions))

InvokeBody_decode(b) ==
  LET request_id == read_bstr(b)
      action     == read_bstr(request_id.rest)
      params     == read_bstr(action.rest)
  IN
  IF request_id.err # "none" THEN Refused(request_id.err)
  ELSE IF action.err # "none" THEN Refused(action.err)
  ELSE IF params.err # "none" THEN Refused(params.err)
  ELSE Encoded([request_id |-> request_id.val, action |-> action.val,
                params |-> params.val])

InvokeBody_encode(i) ==
  IF ~bstr_fits(i.request_id) \/ ~bstr_fits(i.action) \/ ~bstr_fits(i.params)
  THEN Refused("bstr too large")
  ELSE Encoded(write_bstr(i.request_id) \o write_bstr(i.action)
               \o write_bstr(i.params))

ResultBody_decode(b) ==
  LET request_id == read_bstr(b)
      result     == read_bstr(request_id.rest)
  IN
  IF request_id.err # "none" THEN Refused(request_id.err)
  ELSE IF result.err # "none" THEN Refused(result.err)
  ELSE Encoded([request_id |-> request_id.val, result |-> result.val])

ResultBody_encode(r) ==
  IF ~bstr_fits(r.request_id) \/ ~bstr_fits(r.result)
  THEN Refused("bstr too large")
  ELSE Encoded(write_bstr(r.request_id) \o write_bstr(r.result))

ErrorBody_decode(b) ==
  LET request_id == read_bstr(b)
      code       == read_le(request_id.rest, 2)
      message    == read_bstr(code.rest)
  IN
  IF request_id.err # "none" THEN Refused(request_id.err)
  ELSE IF code.err # "none" THEN Refused(code.err)
  ELSE IF message.err # "none" THEN Refused(message.err)
  ELSE IF code.val \notin {ErrorCode[c] : c \in DOMAIN ErrorCode}
  THEN Refused("unknown error code")
  ELSE Encoded([request_id |-> request_id.val,
                code |-> CHOOSE c \in DOMAIN ErrorCode : ErrorCode[c] = code.val,
                message |-> message.val])

ErrorBody_encode(e) ==
  IF ~bstr_fits(e.request_id) \/ ~bstr_fits(e.message)
  THEN Refused("bstr too large")
  ELSE Encoded(write_bstr(e.request_id) \o to_le_bytes(ErrorCode[e.code], 2)
               \o write_bstr(e.message))

\* byte strings up to one byte over the cap
Bstrs == {<< >>, <<1>>, <<0, 1>>, <<1, 1, 1>>}

\* the envelopes and bodies taken through the codecs
Envelopes ==
  [msg_type : DOMAIN MessageType, principal : Bstrs, ts_ms : {0, 1, 258, 65537},
   nonce : {<< >>, <<2>>}, body : {<< >>, <<3, 0>>}, sig : {<<0, 0>>, <<7, 9>>}]
RegisterBodies ==
  [repeater_id : Bstrs,
   actions : {<< >>, <<<<1>>>>, <<<<0, 1>>, << >>>>, <<<<1>>, <<1, 1, 1>>>>}]
InvokeBodies == [request_id : Bstrs, action : {<< >>, <<5>>}, params : Bstrs]
ResultBodies == [request_id : Bstrs, result : Bstrs]
ErrorBodies == [request_id : Bstrs, code : DOMAIN ErrorCode, message : {<< >>, <<9, 9>>}]

Tagged(ty, values) == {[ty |-> ty, v |-> v] : v \in values}

CodecInputs ==
  Tagged("Envelope", Envelopes) \cup Tagged("RegisterBody", RegisterBodies)
  \cup Tagged("InvokeBody", InvokeBodies) \cup Tagged("ResultBody", ResultBodies)
  \cup Tagged("ErrorBody", ErrorBodies)

\* x.encode() for the type at hand
encode(x) ==
  CASE x.ty = "Envelope"     -> Envelope_encode_bytes(x.v)
    [] x.ty = "RegisterBody" -> RegisterBody_encode(x.v)
    [] x.ty = "InvokeBody"   -> InvokeBody_encode(x.v)
    [] x.ty = "ResultBody"   -> ResultBody_encode(x.v)
    [] x.ty = "ErrorBody"    -> ErrorBody_encode(x.v)

\* T::decode(bytes) for the type at hand
decode(ty, bytes) ==
  CASE ty = "Envelope"     -> Envelope_decode_bytes(bytes)
    [] ty = "RegisterBody" -> RegisterBody_decode(bytes)
    [] ty = "InvokeBody"   -> InvokeBody_decode(bytes)
    [] ty = "ResultBody"   -> ResultBody_decode(bytes)
    [] ty = "ErrorBody"    -> ErrorBody_decode(bytes)

\* the value is encoded
Encode ==
  /\ cstage = "value"
  /\ cenc' = encode(cval)
  /\ cstage' = "encoded"
  /\ UNCHANGED <<cval, cdec, bwvars, svars, avars, fvars, gvars, ivars, lvars>>

\* the bytes encode returned are decoded
Decode ==
  /\ cstage = "encoded"
  /\ cenc.err = "none"
  /\ cdec' = decode(cval.ty, cenc.val)
  /\ cstage' = "decoded"
  /\ UNCHANGED <<cval, cenc, bwvars, svars, avars, fvars, gvars, ivars, lvars>>

CodecStart ==
  /\ cval \in CodecInputs
  /\ cenc = NotCalled
  /\ cdec = NotCalled
  /\ cstage = "value"

CodecInit == Quiet /\ FramingIdle /\ CodecStart /\ SigningIdle /\ InvokeIdle /\ LocksIdle

CodecNext == Encode \/ Decode

CodecSpec == CodecInit /\ [][CodecNext]_vars

(* ---------------------------------------------------------------------- *)
(* Signing bytes (src/src/crypto.rs)                                       *)
(* ---------------------------------------------------------------------- *)
\* b'\n'
Newline == 10

\* u64::to_string().as_bytes(): the decimal digits in ASCII
RECURSIVE to_string(_)
to_string(n) ==
  IF n < 10 THEN <<48 + n>> ELSE to_string(n \div 10) \o <<48 + (n % 10)>>

\* canonical_signing_bytes
canonical_signing_bytes(principal, ts_ms, nonce, body) ==
  principal \o <<Newline>> \o to_string(ts_ms) \o <<Newline>> \o nonce
  \o <<Newline>> \o body

\* crypto::sign: a signature is good for one key and one message
sign(sk, principal, ts_ms, nonce, body) ==
  [key |-> sk, bytes |-> canonical_signing_bytes(principal, ts_ms, nonce, body)]

\* crypto::verify: verify_strict of the signature over the signing bytes
crypto_verify(vk, principal, ts_ms, nonce, body, sg) ==
  IF sg.key = vk /\ sg.bytes = canonical_signing_bytes(principal, ts_ms, nonce, body)
  THEN "Ok" ELSE "BadSignature"

\* the fields of the envelopes signed and presented: byte strings with and
\* without a newline byte, short decimal timestamps
SignedTuples ==
  [principal : {<<97>>, <<97, 10, 49>>}, ts_ms : {1, 2, 12},
   nonce : {<<120>>, <<120, 10, 121>>, <<50, 10, 120>>},
   body : {<<122>>, <<121, 10, 122>>}]

\* the holder of the key signs an envelope
Sign ==
  /\ gstage = "tuples"
  /\ sigmsg' = sign("k1", signed.principal, signed.ts_ms, signed.nonce, signed.body)
  /\ gstage' = "signed"
  /\ UNCHANGED <<signed, claimed, verdict, bwvars, svars, avars, fvars, cvars, ivars, lvars>>

\* the signature is verified on the envelope presented with it
Verify ==
  /\ gstage = "signed"
  /\ verdict' = crypto_verify("k1", claimed.principal, claimed.ts_ms, claimed.nonce,
                              claimed.body, sigmsg)
  /\ gstage' = "verified"
  /\ UNCHANGED <<signed, claimed, sigmsg, bwvars, svars, avars, fvars, cvars, ivars, lvars>>

SigningStart ==
  /\ signed \in SignedTuples
  /\ claimed \in SignedTuples
  /\ sigmsg = [key |-> None, bytes |-> << >>]
  /\ verdict = "not called"
  /\ gstage = "tuples"

SigningInit == Quiet /\ FramingIdle /\ CodecIdle /\ SigningStart /\ InvokeIdle /\ LocksIdle

SigningNext == Sign \/ Verify

SigningSpec == SigningInit /\ [][SigningNext]_vars

(* ---------------------------------------------------------------------- *)
(* execute_invoke (src/src/invoke.rs)                                      *)
(* ---------------------------------------------------------------------- *)
\* Option<T>: Some(v), and None standing for T::default()
Given(v) == [some |-> TRUE, v |-> v]
Missing(default) == [some |-> FALSE, v |-> default]

\* the characters str::trim removes
Whitespace == {" "}

\* s[pos..].find(ch): the first place at or after pos where s holds ch, or 0
find(s, pos, ch) ==
  LET idx == {i \in pos..Len(s) : s[i] = ch} IN
  IF idx = {} THEN 0 ELSE CHOOSE i \in idx : \A j \in idx : i <= j

\* render_secret_tokens, the loop from pos on
RECURSIVE render_from(_, _, _)
render_from(text, pos, secrets) ==
  LET start == find(text, pos, "{")
      end   == find(text, start, "}")
      name  == SubSeq(text, start + 1, end - 1)
  IN
  IF start = 0 THEN Ok(text)
  ELSE IF end = 0 THEN Fail("malformed template token")
  ELSE IF name \notin DOMAIN secrets THEN Fail("unknown secret")
  ELSE render_from(SubSeq(text, 1, start - 1) \o secrets[name]
                     \o SubSeq(text, end + 1, Len(text)),
                   start + Len(secrets[name]), secrets)

\* render_secret_tokens
render_secret_tokens(tmpl, secrets) == render_from(tmpl, 1, secrets)

\* count_placeholders, the loop from pos on
RECURSIVE count_from(_, _)
count_from(s, pos) ==
  LET start == find(s, pos, "{")
      end   == find(s, start, "}")
  IN
  IF start = 0 \/ end = 0 THEN 0
  ELSE (IF end > start + 1 THEN 1 ELSE 0) + count_from(s, end + 1)

\* count_placeholders
count_placeholders(s) == count_from(s, 1)

\* str::replace(from, to), from not empty
RECURSIVE str_replace(_, _, _)
str_replace(s, from, to) ==
  IF Len(s) < Len(from) THEN s
  ELSE IF SubSeq(s, 1, Len(from)) = from
       THEN to \o str_replace(Drop(s, Len(from)), from, to)
       ELSE <<s[1]>> \o str_replace(Tail(s), from, to)

\* the loop over a replace table (from, to_tmpl) on one string
RECURSIVE replace_each(_, _, _)
replace_each(s, table, secrets) ==
  IF table = << >> THEN Ok(s)
  ELSE LET to == render_secret_tokens(table[1][2], secrets) IN
       IF ~to.ok THEN to
       ELSE replace_each(str_replace(s, table[1][1], to.v), Tail(table), secrets)

\* the loop over the items of argv
RECURSIVE replace_items(_, _, _)
replace_items(argv, table, secrets) ==
  IF argv = << >> THEN Ok(<< >>)
  ELSE LET item == replace_each(argv[1], table, secrets)
           more == replace_items(Tail(argv), table, secrets)
       IN IF ~item.ok THEN item
          ELSE IF ~more.ok THEN more
          ELSE Ok(<<item.v>> \o more.v)

\* the loop over out_env: env.insert(k, v)
RECURSIVE insert_env(_, _, _)
insert_env(env, table, secrets) ==
  IF table = << >> THEN Ok(env)
  ELSE LET k == render_secret_tokens(table[1][1], secrets)
           v == render_secret_tokens(table[1][2], secrets)
       IN IF ~k.ok THEN k
          ELSE IF ~v.ok THEN v
          ELSE insert_env((k.v :> v.v) @@ env, Tail(table), secrets)

\* the fields of a payload and whether each is present, in the order of the
\* loop of conform_payload
present(req) ==
  <<<<"command", req.command.some>>, <<"argv", req.argv.some>>,
    <<"env", req.env.some>>, <<"stdin", req.stdin.some>>>>

\* the three checks of one field against the shape
shape_error(shape, field) ==
  IF field[2] /\ field[1] \notin shape.allow THEN "field is not allowed"
  ELSE IF field[2] /\ field[1] \in shape.forbid THEN "field is forbidden"
  ELSE IF ~field[2] /\ field[1] \in shape.require THEN "field is required"
  ELSE "none"

\* the string s.trim() is empty
trim_is_empty(s) == \A i \in DOMAIN s : s[i] \in Whitespace

\* the sum of count_placeholders over argv
RECURSIVE sum_placeholders(_)
sum_placeholders(argv) ==
  IF argv = << >> THEN 0
  ELSE count_placeholders(argv[1]) + sum_placeholders(Tail(argv))

\* conform_payload: the command line to run, or the message of the first
\* failing check
conform_payload(def, req, secrets) ==
  LET bad     == {i \in 1..4 : shape_error(def.shape, present(req)[i]) # "none"}
      first   == CHOOSE i \in bad : \A j \in bad : i <= j
      command == render_secret_tokens(def.transform.out_command, secrets)
      argv    == replace_items(req.argv.v, def.transform.out_argv_replace, secrets)
      env     == insert_env(req.env.v, def.transform.out_env, secrets)
      stdin   == replace_each(req.stdin.v, def.transform.out_stdin_replace, secrets)
  IN
  IF bad # {} THEN Fail(shape_error(def.shape, present(req)[first]))
  ELSE IF def.shape.argv_placeholders.some /\ ~req.argv.some
       THEN Fail("argv required for placeholder check")
  ELSE IF /\ def.shape.argv_placeholders.some
          /\ sum_placeholders(req.argv.v) # def.shape.argv_placeholders.v
       THEN Fail("argv placeholder count")
  ELSE IF ~command.ok THEN command
  ELSE IF trim_is_empty(command.v) THEN Fail("command resolved empty")
  ELSE IF ~argv.ok THEN argv
  ELSE IF ~env.ok THEN env
  ELSE IF ~stdin.ok THEN stdin
  ELSE [ok |-> TRUE, err |-> "",
        v |-> [command |-> command.v, argv |-> argv.v, env |-> env.v,
               stdin |-> stdin.v]]

\* bunker.agents.get(agent_id).map(|s| s == agent_secret).unwrap_or(false)
authed(bunker, req) ==
  /\ req.agent_id \in DOMAIN bunker.agents
  /\ bunker.agents[req.agent_id] = req.agent_secret

\* bunker.permissions.get(agent_id).map(|s| s.contains(target)).unwrap_or(false)
permitted(bunker, req) ==
  /\ req.agent_id \in DOMAIN bunker.permissions
  /\ req.target \in bunker.permissions[req.agent_id]

\* mutant of checks: the permission is looked up before the credentials
checks_permission_first(bunker, req) ==
  IF ~permitted(bunker, req) THEN "Denied"
  ELSE IF ~authed(bunker, req) THEN "Unauthenticated"
  ELSE IF req.target \notin DOMAIN bunker.targets THEN "UnknownTarget"
  ELSE IF ~conform_payload(bunker.targets[req.target], req,
                           bunker.secrets).ok
       THEN "BadRequest"
  ELSE "none"

\* execute_invoke up to run_target: the error returned, or "none"
checks(bunker, req) ==
  IF ~authed(bunker, req) THEN "Unauthenticated"
  ELSE IF ~permitted(bunker, req) THEN "Denied"
  ELSE IF req.target \notin DOMAIN bunker.targets THEN "UnknownTarget"
  ELSE IF ~conform_payload(bunker.targets[req.target], req,
                           bunker.secrets).ok
       THEN "BadRequest"
  ELSE "none"

\* a TargetDef of the invoke catalog
Target(allow, forbid, require, argv_placeholders, out_command, out_argv_replace, out_env, out_stdin_replace) ==
  [shape |-> [allow |-> allow, forbid |-> forbid, require |-> require,
              argv_placeholders |-> argv_placeholders],
   transform |-> [out_command |-> out_command, out_argv_replace |-> out_argv_replace,
                  out_env |-> out_env, out_stdin_replace |-> out_stdin_replace]]

AllFields == {"command", "argv", "env", "stdin"}

\* the targets of a bunker that Bunker::validate accepts: every {name} token of
\* alphanumerics names a secret
LoadedTargets ==
  [t \in {"plain", "token", "lazy", "strict", "blank", "broken"} |->
     CASE t = "plain" ->
            Target(AllFields, {}, {}, Missing(0), <<"c">>, << >>, << >>, << >>)
       [] t = "token" ->
            Target({"argv", "env"}, {}, {"argv"}, Given(1), <<"c", "{", "s", "}">>,
                   <<<<<<"X">>, <<"{", "s", "}">>>>>>,
                   <<<<<<"K">>, <<"{", "s", "}">>>>>>, << >>)
       [] t = "lazy" ->
            Target({"argv"}, {}, {}, Missing(0), <<"c">>,
                   <<<<<<"X">>, <<"{", ".", "}">>>>>>, << >>, << >>)
       [] t = "strict" ->
            Target({"stdin", "env"}, {"env"}, {"stdin"}, Missing(0), <<"c">>, << >>,
                   << >>, <<<<<<"X">>, <<"{", "s", "}">>>>>>)
       [] t = "blank" ->
            Target(AllFields, {}, {}, Missing(0), <<"{", "e", "}">>, << >>, << >>, << >>)
       [] t = "broken" ->
            Target(AllFields, {}, {}, Missing(0), <<"c">>, << >>, << >>,
                   <<<<<<"X">>, <<"{", "s">>>>>>)]

\* bunker.secrets: "s" and a secret of whitespace
LoadedSecrets == (<<"s">> :> <<"v">>) @@ (<<"e">> :> <<" ">>)

\* a bunker as Bunker::decode returns it
LoadedBunker ==
  [agents |-> [a \in {"ag1", "ag2"} |-> IF a = "ag1" THEN "pw1" ELSE "pw2"],
   permissions |-> [a \in {"ag1"} |-> DOMAIN LoadedTargets],
   targets |-> LoadedTargets,
   secrets |-> LoadedSecrets]

\* a bunker built by a caller of the library: a permission names a target that
\* is not in the catalog
HandMadeBunker ==
  [LoadedBunker EXCEPT !.permissions = [a \in {"ag1"} |-> DOMAIN LoadedTargets \cup {"ghost"}]]

InvokeBunkers == {LoadedBunker, HandMadeBunker}

NoEnv == [k \in {} |-> << >>]

\* the payloads handed to execute_invoke
InvokePayloads ==
  [agent_id : {"ag1", "ag2", "zz"}, agent_secret : {"pw1", "bad"},
   target : DOMAIN LoadedTargets \cup {"ghost"},
   command : {Missing(<< >>), Given(<<"x">>)},
   argv : {Missing(<< >>), Given(<< >>), Given(<<<<"X">>>>), Given(<<<<"{", "p", "}">>>>)},
   env : {Missing(NoEnv), Given(<<"K">> :> <<"w">>)},
   stdin : {Missing(<< >>), Given(<<"X">>)}]

\* what Command::spawn and the child can do: spawn fails, the child succeeds,
\* the child exits with an error
SpawnOutcomes == {"spawn failed", "exited ok", "command failed"}

\* execute_invoke(bunker, req), run_target included
ExecuteInvoke ==
  LET err == checks(ibunker, ireq)
      run == conform_payload(ibunker.targets[ireq.target], ireq, ibunker.secrets).v
  IN
  /\ istage = "call"
  /\ istage' = "returned"
  /\ IF err # "none"
     THEN ires' = [err |-> err, msg |-> ""] /\ UNCHANGED spawned
     ELSE IF run.command = << >>
     THEN ires' = [err |-> "Internal", msg |-> "empty command"] /\ UNCHANGED spawned
     ELSE \E o \in SpawnOutcomes :
            /\ spawned' = IF o = "spawn failed" THEN spawned ELSE Append(spawned, run)
            /\ ires' = IF o = "exited ok" THEN [err |-> "none", msg |-> ""]
                       ELSE [err |-> "Internal", msg |-> o]
  /\ UNCHANGED <<ibunker, ireq, bwvars, svars, avars, fvars, cvars, gvars, lvars>>

InvokeStart ==
  /\ ibunker \in InvokeBunkers
  /\ ireq \in InvokePayloads
  /\ ires = [err |-> "not called", msg |-> ""]
  /\ spawned = << >>
  /\ istage = "call"

InvokeInit == Quiet /\ FramingIdle /\ CodecIdle /\ SigningIdle /\ InvokeStart /\ LocksIdle

InvokeNext == ExecuteInvoke

InvokeSpec == InvokeInit /\ [][InvokeNext]_vars

(* ---------------------------------------------------------------------- *)
(* The mutexes of the broker (server.rs lock sites)                        *)
(* ---------------------------------------------------------------------- *)
\* frames whose handling is followed lock by lock
MaxPaths == 2

\* m.lock().unwrap(), the guard going out of scope, write_frame under a guard
\* with its result used (?) or dropped (let _ =), and the loop returning
Locks(m) == <<"lock", m>>
Drops(m) == <<"unlock", m>>
Writes(m) == <<"write", m>>
WritesAny(m) == <<"write_any", m>>
ReturnsErr == <<"return", <<"-", "-">>>>

\* a block that takes one guard and drops it without blocking in between
Briefly(m) == <<Locks(m), Drops(m)>>

\* mutant of send_error_ops: the write handle is locked twice
send_error_ops_relock(t) ==
  <<Locks(<<"write", t>>), Locks(<<"write", t>>), Writes(<<"write", t>>),
    Drops(<<"write", t>>)>>

\* send_error(&write, ...)?: the thread's own write handle
send_error_ops(t) ==
  <<Locks(<<"write", t>>), Writes(<<"write", t>>), Drops(<<"write", t>>)>>

\* the replay block whose check_and_record accepts the frame, or rejects a
\* frame that gets no error reply
ReplayBlock == Briefly(<<"replay", "-">>)

\* the replay block that rejects an agent's Invoke: send_error inside it
ReplayBlockWithError(t) ==
  <<Locks(<<"replay", "-">>)>> \o send_error_ops(t) \o <<Drops(<<"replay", "-">>)>>

\* the session lookup of an Invoke
SessionLookup == Briefly(<<"repeaters", "-">>)

\* the lock operations of one frame on an agent connection, path by path
AgentPaths(t) ==
  {<<ReturnsErr>>, ReplayBlock, ReplayBlock \o <<ReturnsErr>>,
   ReplayBlockWithError(t),
   ReplayBlock \o send_error_ops(t),
   ReplayBlock \o SessionLookup \o send_error_ops(t)}
  \cup {ReplayBlock \o SessionLookup \o Briefly(<<"registered_actions", r>>)
          \o send_error_ops(t) : r \in RepeaterConns}
  \cup {ReplayBlock \o SessionLookup \o Briefly(<<"registered_actions", r>>)
          \o Briefly(<<"pending", "-">>)
          \o <<Locks(<<"write", r>>), Writes(<<"write", r>>), Drops(<<"write", r>>)>> :
        r \in RepeaterConns}

\* the lock operations of one frame, or of the end of the stream, on a
\* repeater connection
RepeaterPaths(t) ==
  {ReplayBlock, ReplayBlock \o <<ReturnsErr>>,
   ReplayBlock \o Briefly(<<"repeaters", "-">>),
   ReplayBlock \o Briefly(<<"pending", "-">>),
   Briefly(<<"repeaters", "-">>) \o <<ReturnsErr>>, <<ReturnsErr>>}
  \cup {ReplayBlock \o Briefly(<<"pending", "-">>)
          \o <<Locks(<<"write", a>>), WritesAny(<<"write", a>>), Drops(<<"write", a>>)>> :
        a \in AgentConns}

Paths(t) == IF t \in AgentConns THEN AgentPaths(t) ELSE RepeaterPaths(t)

\* the next operation of thread t
NextOp(t) == IF todo[t] = << >> THEN <<"none", <<"-", "-">>>> ELSE Head(todo[t])

\* thread t reads a frame (or the end of the stream) and goes down one path
BeginPath(t, path) ==
  /\ t \notin ended /\ todo[t] = << >>
  /\ npaths < MaxPaths
  /\ npaths' = npaths + 1
  /\ todo' = [todo EXCEPT ![t] = path]
  /\ UNCHANGED <<owner, ended, bwvars, svars, avars, fvars, cvars, gvars, ivars>>

\* lock() returns: the mutex was free
Acquire(t) ==
  /\ NextOp(t)[1] = "lock"
  /\ owner[NextOp(t)[2]] = None
  /\ owner' = [owner EXCEPT ![NextOp(t)[2]] = t]
  /\ todo' = [todo EXCEPT ![t] = Tail(@)]
  /\ UNCHANGED <<ended, npaths, bwvars, svars, avars, fvars, cvars, gvars, ivars>>

\* a guard goes out of scope
Release(t) ==
  /\ NextOp(t)[1] = "unlock"
  /\ owner' = [owner EXCEPT ![NextOp(t)[2]] = None]
  /\ todo' = [todo EXCEPT ![t] = Tail(@)]
  /\ UNCHANGED <<ended, npaths, bwvars, svars, avars, fvars, cvars, gvars, ivars>>

\* write_frame under the guard completes, with success or with a result that
\* is dropped
WriteDone(t) ==
  /\ NextOp(t)[1] \in {"write", "write_any"}
  /\ todo' = [todo EXCEPT ![t] = Tail(@)]
  /\ UNCHANGED <<owner, ended, npaths, bwvars, svars, avars, fvars, cvars, gvars, ivars>>

\* the thread's loop returns and every guard it holds is dropped
Returns(t) ==
  /\ owner' = [m \in Mutexes |-> IF owner[m] = t THEN None ELSE owner[m]]
  /\ todo' = [todo EXCEPT ![t] = << >>]
  /\ ended' = ended \cup {t}
  /\ UNCHANGED <<npaths, bwvars, svars, avars, fvars, cvars, gvars, ivars>>

\* write_frame fails and ? returns the error
WriteErr(t) == NextOp(t)[1] = "write" /\ Returns(t)

\* the loop ends: an error of decode or verify, or the end of the stream
LoopEnds(t) == NextOp(t)[1] = "return" /\ Returns(t)

\* what thread t does next when it can
GoesOn(t) == Acquire(t) \/ Release(t) \/ WriteDone(t) \/ WriteErr(t) \/ LoopEnds(t)

LocksInit ==
  Quiet /\ FramingIdle /\ CodecIdle /\ SigningIdle /\ InvokeIdle /\ LocksIdle

LocksNext ==
  \/ \E t \in Conns : \E path \in Paths(t) : BeginPath(t, path)
  \/ \E t \in Conns : Acquire(t)
  \/ \E t \in Conns : Release(t)
  \/ \E t \in Conns : WriteDone(t)
  \/ \E t \in Conns : WriteErr(t)
  \/ \E t \in Conns : LoopEnds(t)

\* every thread goes on when it can, and a stream write that is under way
\* completes
LocksSpec ==
  /\ LocksInit /\ [][LocksNext]_vars
  /\ \A t \in Conns : WF_vars(GoesOn(t)) /\ SF_vars(Acquire(t))

(* ---------------------------------------------------------------------- *)
(* Properties                                                              *)
(* ---------------------------------------------------------------------- *)
\* the entries written to connection w
OutEntries(w) == {out[w][i] : i \in DOMAIN out[w]}

\* connection c's thread takes a step
Steps(c) == pc'[c] # pc[c]

\* C1: every Invoke frame the broker writes to a stream was written by the
\* forward of an agent's Invoke, its action a is in permissions[p] of its
\* envelope principal p, actions[a] is defined, and the stream belongs to a
\* session that a Register inserted under actions[a] with a in its live
\* action set, that session being the one the forward looked up.
C1_ForwardAuthorized ==
  \A w \in Conns : \A e \in OutEntries(w) :
    e.frame.msg_type = "Invoke" =>
      LET p == e.frame.principal
          a == e.frame.body.action
      IN /\ e.how = "forward"
         /\ p \in DOMAIN Bunker.permissions /\ a \in Bunker.permissions[p]
         /\ a \in DOMAIN Bunker.actions
         /\ \E s \in sessions_ever :
              /\ s.repeater_id = Bunker.actions[a]
              /\ s.session = e.sess
              /\ s.session.write = w
              /\ a \in s.session.registered_actions

\* C1 witness: an Invoke has been forwarded to a repeater's stream
C1_Witness ==
  \E w \in RepeaterConns : \E e \in OutEntries(w) : e.how = "forward"

\* the frame f names a catalog principal, carries that principal's signature
\* and passed the replay check
Authentic(f) ==
  /\ f.wire = "ok"
  /\ f.principal \in Bunker.agents \cup Bunker.repeaters
  /\ f.sig = f.principal
  /\ \E t \in accepted : t[1] = f.principal /\ t[2] = f.nonce /\ t[3] = f.ts_ms

\* a step writes a forwarded frame or a routed reply to some stream
WritesOn ==
  \E w \in Conns :
    /\ Len(out'[w]) > Len(out[w])
    /\ out'[w][Len(out'[w])].how \in {"forward", "reply"}

\* C2: a step in which a connection's thread handles a frame and that changes
\* the session table or the pending table, or writes a forwarded frame or a
\* routed reply, handles a frame whose principal is in agents or repeaters,
\* that the replay cache accepted and whose signature verifies.
C2_OnlyAuthenticFramesAct ==
  [][\A c \in Conns :
       (Steps(c) /\ payload[c] # NoPayload
          /\ (repeaters' # repeaters \/ pending' # pending \/ WritesOn))
       => Authentic(payload[c])]_vars

\* C2 witness: an authenticated Invoke has been entered in the pending table
C2_Witness ==
  \E c \in AgentConns : pc[c] = "fwd" /\ pending[payload[c].body.request_id] = c

\* the steps a connection's thread takes on its own once it has read a frame
ThreadStep(c) ==
  \/ ReplayCheck(c)
  \/ ReplayError(c)
  \/ VerifyFail(c)
  \/ Register(c)
  \/ Invoke(c)
  \/ InvokePend(c)
  \/ InvokeForward(c)
  \/ Reply(c)
  \/ RouteWrite(c)
  \/ Ignore(c)

\* every connection has a thread of its own (thread::spawn per accepted
\* stream) and every mutex is held for a bounded time, so a thread that can
\* step eventually does; nothing obliges a peer to send or to hang up
InitRoundTrip == InitWith(RoundTripScripts)

FairSpec ==
  InitRoundTrip /\ [][Next]_vars /\ \A c \in Conns : WF_vars(ThreadStep(c))

\* every frame some peer may send during a round trip
SentFrames ==
  UNION {UNION {{kf[2] : kf \in s.frames[c]} : c \in Conns} :
         s \in RoundTripScripts}

\* the validly signed Invokes of a permitted agent for an owned action
GoodInvokes ==
  {f \in SentFrames :
     /\ f.wire = "ok" /\ f.msg_type = "Invoke" /\ f.sig = f.principal
     /\ f.body.shape = "invoke" /\ Utf8(f.body.action)
     /\ allowed(f.principal, f.body.action)
     /\ f.body.action \in DOMAIN Bunker.actions}

\* the repeater owning action a has a live session for a on an open stream
SessionLive(a) ==
  LET s == repeaters[Bunker.actions[a]] IN
  /\ s.write # None
  /\ a \in s.registered_actions
  /\ pc[s.write] # "done"

\* the broker has just read the Invoke f from agent connection c: f is within
\* the window, its (principal, nonce) is new to the replay cache, and no other
\* connection holds a validly signed frame with that (principal, nonce)
FreshInvokeRead(c, f) ==
  /\ pc[c] = "replay" /\ payload[c] = f
  /\ now_ms[c] = now
  /\ (IF now >= f.ts_ms THEN now - f.ts_ms ELSE f.ts_ms - now) <= Window
  /\ ~contains_key(replay.seen, f.principal, f.nonce)
  /\ \A d \in Conns \ {c} :
       ~(/\ payload[d].principal = f.principal /\ payload[d].nonce = f.nonce
         /\ payload[d].sig = f.principal)
  /\ SessionLive(f.body.action)

\* the Invoke f read from c has been written to a repeater's stream
Forwarded(c, f) ==
  \E w \in RepeaterConns : \E e \in OutEntries(w) :
    e.how = "forward" /\ e.by = c /\ e.frame = f

\* the one Invoke with request id q was forwarded from agent connection a to
\* repeater connection c, no other request ever used q, and c's thread now
\* handles a validly signed, well-formed reply carrying q that it read after
\* the Invoke was written
ReplyInHand(c, a, q) ==
  /\ pc[c] = "dispatch"
  /\ payload[c].msg_type \in {"Result", "Error"}
  /\ payload[c].sig = payload[c].principal
  /\ payload[c].body.shape \in {"result", "error"}
  /\ payload[c].body.request_id = q
  /\ Len(inserted[q]) = 1
  /\ \E i \in 1..heard[c] :
       /\ out[c][i].how = "forward" /\ out[c][i].by = a
       /\ out[c][i].frame.body.request_id = q

\* a reply carrying q that c's thread read has been written to a's stream
ReplyDelivered(c, a, q) ==
  \E e \in OutEntries(a) :
    e.how = "reply" /\ e.by = c /\ e.frame.body.request_id = q

\* the repeater that was sent the one Invoke with request id q has a reply
\* to it in hand
ReplySent(q) ==
  \E c \in RepeaterConns : \E a \in AgentConns : ReplyInHand(c, a, q)

\* that repeater's reply reached the agent that sent the Invoke, or the
\* agent's stream has closed, or another request has used q
ReplyArrived(q) ==
  \/ Len(inserted[q]) > 1
  \/ \E c \in RepeaterConns : \E a \in AgentConns :
       /\ \E e \in OutEntries(c) :
            e.how = "forward" /\ e.by = a /\ e.frame.body.request_id = q
       /\ ReplyDelivered(c, a, q) \/ pc[a] \in {"done", "err"}

\* C3: a fresh, validly signed Invoke of a permitted agent for an action
\* whose owner has a live session is eventually written to a repeater's
\* stream, unless that session goes away; and a validly signed reply that
\* the repeater then sends with the request id is eventually written to the
\* agent's stream, unless the agent's stream closes or another request uses
\* the same request id.
C3_RoundTrip ==
  /\ \A c \in AgentConns : \A f \in GoodInvokes :
       FreshInvokeRead(c, f) ~> (Forwarded(c, f) \/ ~SessionLive(f.body.action))
  /\ \A q \in RequestIds : ReplySent(q) ~> ReplyArrived(q)

\* C4: a check_and_record call for (principal, nonce, ts_ms) succeeds only if
\* no earlier call with the same (principal, nonce, ts_ms) succeeded.
C4_AtMostOnePass ==
  [][\A c \in Conns :
       (pc[c] = "replay" /\ pc'[c] = "dispatch")
       => ~\E t \in accepted :
             /\ t[1] = payload[c].principal
             /\ t[2] = payload[c].nonce
             /\ t[3] = payload[c].ts_ms]_vars

\* (principal, nonce) was recorded by a successful call made at a time in
\* [now_i - Window, now_i]
RecordedInLastWindow(principal, nonce, now_i) ==
  \E t \in accepted :
    /\ t[1] = principal /\ t[2] = nonce
    /\ t[4] <= now_i /\ now_i - t[4] <= Window

\* C5: a check_and_record call whose timestamp is within the window, made
\* with a clock value no earlier than that of any successful call before it,
\* succeeds if and only if (principal, nonce) was not recorded by a
\* successful call during the last Window ticks before now_i.
C5_SuccessIffNotRecent ==
  [][\A c \in Conns :
       LET f  == payload[c]
           dt == IF now_ms[c] >= f.ts_ms THEN now_ms[c] - f.ts_ms
                 ELSE f.ts_ms - now_ms[c]
       IN (/\ pc[c] = "replay" /\ Steps(c) /\ dt <= Window
           /\ \A t \in accepted : t[4] <= now_ms[c])
          => (pc'[c] = "dispatch"
                <=> ~RecordedInLastWindow(f.principal, f.nonce, now_ms[c]))]_vars

\* C6: every forwarded frame and every routed reply is written with exactly
\* the bytes the writing thread read from its own connection.
C6_ForwardVerbatim ==
  \A w \in Conns : \A e \in OutEntries(w) :
    e.how \in {"forward", "reply"} => e.frame = e.read

\* C6 witness: an Invoke and a reply with bytes after the signature field
\* have both been passed on
C6_Witness ==
  /\ \E w \in RepeaterConns : \E e \in OutEntries(w) :
       e.how = "forward" /\ e.read.trail
  /\ \E w \in AgentConns : \E e \in OutEntries(w) :
       e.how = "reply" /\ e.read.trail

\* the replies with request id q written to agents, as <<stream, index>>
Delivered(q) ==
  UNION {{<<w, i>> : i \in {j \in DOMAIN out[w] :
                              /\ out[w][j].how = "reply"
                              /\ out[w][j].frame.body.request_id = q}} :
         w \in Conns}

\* route_reply calls that have removed the entry of q and not yet written
Holding(q) ==
  {c \in Conns : pc[c] = "reply" /\ payload[c].body.request_id = q}

\* C7: every reply written to an agent consumed a pending entry of its
\* request id that was inserted before and is no longer in the table, and
\* no insertion is consumed twice: for each request id the replies
\* delivered, the entries removed and not yet delivered and the entry still
\* in the table never outnumber the insertions.
C7_OneReplyPerInsertion ==
  \A q \in RequestIds :
    Cardinality(Delivered(q)) + Cardinality(Holding(q))
      + (IF pending[q] # None THEN 1 ELSE 0) <= Len(inserted[q])

\* C7 witness: two repeater connections have each handled a reply to q1, one
\* reply was delivered and the other dropped
C7_Witness ==
  /\ Cardinality(Delivered("q1")) = 1
  /\ Len(inserted["q1"]) = 1
  /\ \A c \in RepeaterConns : pc[c] = "read" /\ wire[c] = {}
  /\ \E t \in accepted : t[1] = "rp1" /\ t[2] = "n2"
  /\ \E t \in accepted : t[1] = "rp2" /\ t[2] = "n1"

\* C8: a repeater connection whose read loop has ended owns no session.
C8_ClosedConnectionHasNoSession ==
  \A c \in RepeaterConns :
    pc[c] \in {"done", "err"} =>
      \A r \in DOMAIN repeaters : repeaters[r].write # c

\* C9: when a connection closes, exactly the sessions whose write handle is
\* that connection's leave the session table.
C9_CloseRemovesOwnSessions ==
  [][\A c \in Conns :
       (pc[c] = "read" /\ pc'[c] = "done")
       => repeaters' = [r \in DOMAIN repeaters |->
                          IF repeaters[r].write = c THEN NoSession
                          ELSE repeaters[r]]]_vars

\* the outcome the order of checks prescribes
C10_Expected(p, a, reps) ==
  IF ~(p \in DOMAIN Bunker.permissions /\ a \in Bunker.permissions[p])
    THEN "Denied"
  ELSE IF a \notin DOMAIN Bunker.actions THEN "UnknownAction"
  ELSE IF reps[Bunker.actions[a]] = NoSession THEN "NoRepeater"
  ELSE IF a \notin reps[Bunker.actions[a]].registered_actions THEN "NoRepeater"
  ELSE "Forward"

\* C10: an authenticated, non-replayed Invoke with a well-formed body (the
\* body decodes and its action is UTF-8) is answered by the first failing
\* check in the order Denied, UnknownAction, NoRepeater (no session),
\* NoRepeater (session lacks the action), each error carrying the Invoke's
\* request id, and is otherwise taken on for forwarding.
C10_FirstFailingCheck ==
  [][\A c \in AgentConns :
       LET f == payload[c]
           x == C10_Expected(f.principal, f.body.action, repeaters)
       IN (/\ pc[c] = "dispatch" /\ Steps(c)
           /\ f.msg_type = "Invoke" /\ f.sig = f.principal
           /\ f.body.shape = "invoke" /\ Utf8(f.body.action))
          => IF x = "Forward"
             THEN pc'[c] = "pend" /\ out'[c] = out[c]
             ELSE /\ pc'[c] = "read"
                  /\ Len(out'[c]) = Len(out[c]) + 1
                  /\ LET e == out'[c][Len(out'[c])] IN
                       /\ e.how = "error"
                       /\ e.frame.msg_type = "Error"
                       /\ e.frame.body.code = x
                       /\ e.frame.body.request_id = f.body.request_id]_vars

\* C10 witness: one agent connection has been answered Denied, UnknownAction
\* and NoRepeater
C10_Witness ==
  \E c \in AgentConns :
    \A code \in {"Denied", "UnknownAction", "NoRepeater"} :
      \E e \in OutEntries(c) : e.how = "error" /\ e.frame.body.code = code

\* connection c's thread handles, past the replay and signature checks, an
\* Invoke whose body decodes
InvokeDispatched(c) ==
  /\ pc[c] = "dispatch" /\ Steps(c)
  /\ c \in AgentConns
  /\ payload[c].msg_type = "Invoke" /\ payload[c].sig = payload[c].principal
  /\ payload[c].body.shape = "invoke"

\* the step answers the frame in hand with one synthesized error of this code
\* carrying the frame's request id, and the loop goes on
AnswersError(c, code) ==
  /\ pc'[c] = "read"
  /\ Len(out'[c]) = Len(out[c]) + 1
  /\ LET e == out'[c][Len(out'[c])] IN
       /\ e.how = "error" /\ e.frame.msg_type = "Error"
       /\ e.frame.body.code = code
       /\ e.frame.body.request_id = payload[c].body.request_id

\* C11 as stated: every authenticated Invoke whose (UTF-8) action is not a
\* key of catalog.actions is answered with Error(UnknownAction) carrying its
\* request id.
C11_UnknownActionAnswered ==
  [][\A c \in AgentConns :
       (/\ InvokeDispatched(c)
        /\ Utf8(payload[c].body.action)
        /\ payload[c].body.action \notin DOMAIN Bunker.actions)
       => AnswersError(c, "UnknownAction")]_vars

\* C11 amended: an authenticated Invoke whose action is UTF-8 and in
\* permissions[p] of its principal p but not a key of catalog.actions is
\* answered with Error(UnknownAction) carrying its request id.
C11_PermittedUnknownAction ==
  [][\A c \in AgentConns :
       (/\ InvokeDispatched(c)
        /\ Utf8(payload[c].body.action)
        /\ allowed(payload[c].principal, payload[c].body.action)
        /\ payload[c].body.action \notin DOMAIN Bunker.actions)
       => AnswersError(c, "UnknownAction")]_vars

\* C11 witness: the Invoke for the permitted action nobody owns has been
\* answered UnknownAction with its request id
C11_Witness ==
  \E c \in AgentConns : \E e \in OutEntries(c) :
    /\ e.how = "error" /\ e.frame.body.code = "UnknownAction"
    /\ e.read.body.action = "ghost"
    /\ e.frame.body.request_id = e.read.body.request_id

\* connection c's thread writes a frame to some stream in this step
WritesFrame(c) ==
  \E w \in Conns :
    /\ Len(out'[w]) = Len(out[w]) + 1
    /\ out'[w][Len(out'[w])].by = c

\* C17: no thread writes a frame while it holds the replay-cache, the
\* session-table or the pending-table mutex: every step that writes a frame
\* is taken by a thread holding none of them.
C17_NoWriteUnderSharedMutex ==
  [][\A c \in Conns : WritesFrame(c) => held(c) = {}]_vars

\* connection c reads frame f off its stream in this step
ReadsFrame(c, f) ==
  /\ pc[c] = "read"
  /\ \E k \in 1..MaxFrames : <<k, f>> \in wire[c] /\ wire'[c] = wire[c] \ {<<k, f>>}

\* the frame in hand at c names a known principal and carries a signature
\* that does not verify
BadSignatureInHand(c) ==
  /\ payload[c] # NoPayload
  /\ ~verify(lookup_vk(Envelope_decode(payload[c]).principal),
             Envelope_decode(payload[c]))

\* C12: a frame whose principal is unknown, or whose signature does not
\* verify, makes the broker write nothing to the sender and close the
\* connection, and a closed connection handles no further frame.
C12_SilentClose ==
  [][\A c \in Conns :
       /\ \A f \in {kf[2] : kf \in wire[c]} :
            (/\ ReadsFrame(c, f) /\ Envelope_decodes(f)
             /\ lookup_vk(Envelope_decode(f).principal) = None)
            => pc'[c] = "err" /\ out'[c] = out[c]
       /\ (BadSignatureInHand(c) /\ Steps(c))
            => /\ out'[c] = out[c]
               /\ pc'[c] \in {"dispatch", "err"}
       /\ pc[c] = "err" => pc'[c] = "err" /\ wire'[c] = wire[c]]_vars

\* the replay cache rejects the frame in hand at c in this step
ReplayRejects(c) ==
  /\ pc[c] = "replay" /\ Steps(c)
  /\ check_and_record(replay, now_ms[c], payload[c].ts_ms,
                      payload[c].principal, payload[c].nonce)[1] # "Ok"

\* nothing is forwarded and no pending or session entry is made or removed
NothingDispatched ==
  /\ UNCHANGED <<repeaters, pending>>
  /\ \A w \in RepeaterConns : out'[w] = out[w]

MalformedBody(c) ==
  LET env == Envelope_decode(payload[c]) IN
  /\ pc[c] = "dispatch"
  /\ verify(lookup_vk(env.principal), env)
  /\ c \in AgentConns /\ env.msg_type = "Invoke"
  /\ ~InvokeBody_decodes(env.body)

\* C14: an Invoke with a valid envelope that passes the principal, replay and
\* signature checks, and whose body is malformed, is answered with
\* Error(BadRequest) on the sender's connection.
C14_MalformedBodyAnswered ==
  [][\A c \in AgentConns :
       (MalformedBody(c) /\ Steps(c)) =>
         /\ Len(out'[c]) = Len(out[c]) + 1
         /\ out'[c][Len(out'[c])].frame.msg_type = "Error"
         /\ out'[c][Len(out'[c])].frame.body.code = "BadRequest"]_vars

\* the entries of the session table
LiveSessions == {r \in DOMAIN repeaters : repeaters[r] # NoSession}

\* the Register in hand at c cannot make a session: wrong endpoint, a body
\* that does not decode, repeater_id other than the envelope principal, or a
\* principal that is not a repeater of the catalog
FailingRegister(c) ==
  /\ payload[c] # NoPayload
  /\ payload[c].msg_type = "Register"
  /\ \/ c \in AgentConns
     \/ payload[c].body.shape # "register"
     \/ payload[c].body.repeater_id # payload[c].principal
     \/ payload[c].principal \notin Bunker.repeaters

\* C15: every entry r -> session of the session table has r among the
\* catalog's repeaters, was made by a Register read on the repeater
\* endpoint, on the session's own connection, with body.repeater_id equal to
\* its envelope principal r, and holds exactly the advertised actions the
\* catalog gives to r; a thread handling a Register that fails one of these
\* conditions, or that came on the agent endpoint, leaves the table unchanged.
C15_SessionsWellFormed ==
  /\ [](\A r \in LiveSessions :
          /\ r \in Bunker.repeaters
          /\ repeaters[r].write \in RepeaterConns
          /\ \E s \in sessions_ever :
               /\ s.repeater_id = r /\ s.session = repeaters[r]
               /\ s.register.msg_type = "Register"
               /\ s.register.principal = r
               /\ s.register.body.repeater_id = r
               /\ repeaters[r].registered_actions =
                    {a \in s.register.body.actions :
                       a \in DOMAIN Bunker.actions /\ Bunker.actions[a] = r})
  /\ [][\A c \in Conns :
          (FailingRegister(c) /\ Steps(c)) => repeaters' = repeaters]_vars

\* a session holds fewer actions than its Register advertised, and on the
\* same deployment a Register naming another repeater than its signer has
\* been handled without leaving a session
C15_Witness ==
  /\ \E r \in LiveSessions : \E s \in sessions_ever :
       /\ s.repeater_id = r /\ s.session = repeaters[r]
       /\ s.register.nonce = "n6"
       /\ repeaters[r].registered_actions = {"echo"}
       /\ s.register.body.actions = {"echo", "ping", "xFF"}
  /\ \E c \in RepeaterConns :
       /\ \E kf \in ScriptRegisters.frames[c] \ wire[c] :
            kf[2] = Reg("rp1", 0, "n2", "rp2", {"echo"})
       /\ pc[c] = "read" /\ payload[c] = NoPayload
       /\ repeaters["rp2"] = NoSession

\* the insertions made so far under repeater_id r
InsertedFor(r) == {s \in sessions_ever : s.repeater_id = r}

\* the last of them
Latest(r) == CHOOSE s \in InsertedFor(r) : \A t \in InsertedFor(r) : t.seq <= s.seq

\* the Register in hand at repeater connection c passes every check
ValidRegister(c) ==
  LET env == Envelope_decode(payload[c]) IN
  /\ c \in RepeaterConns /\ pc[c] = "dispatch"
  /\ env.msg_type = "Register" /\ verify(lookup_vk(env.principal), env)
  /\ RegisterBody_decodes(env.body)
  /\ env.body.repeater_id = env.principal
  /\ env.principal \in Bunker.repeaters

\* C16: the session table holds for a repeater principal r nothing but the
\* session of the last Register processed for r; processing a valid Register
\* for r maps r to the registering connection and to the action set of that
\* Register alone, leaving the other entries as they were; and an Invoke whose
\* session lookup comes afterwards gets that session and is forwarded to its
\* connection, not to that of an earlier Register.
C16_LatestRegisterWins ==
  /\ [](\A r \in LiveSessions : repeaters[r] = Latest(r).session)
  /\ [][\A c \in RepeaterConns :
          (ValidRegister(c) /\ Steps(c)) =>
            LET body == Envelope_decode(payload[c]).body IN
            /\ repeaters'[body.repeater_id] =
                 [write |-> c,
                  registered_actions |->
                    {a \in body.actions :
                       /\ a \in DOMAIN Bunker.actions
                       /\ Bunker.actions[a] = body.repeater_id}]
            /\ \A r \in DOMAIN repeaters \ {body.repeater_id} :
                 repeaters'[r] = repeaters[r]]_vars
  /\ [][\A c \in AgentConns :
          /\ (pc[c] = "dispatch" /\ pc'[c] = "pend") =>
               LET r == Bunker.actions[Envelope_decode(payload[c]).body.action] IN
               /\ InsertedFor(r) # {}
               /\ session'[c] = Latest(r).session
          /\ (pc[c] = "fwd" /\ Steps(c)) =>
               \A w \in Conns :
                 out'[w] # out[w] =>
                   /\ w = session[c].write
                   /\ out'[w] = Append(out[w], out'[w][Len(out'[w])])
                   /\ out'[w][Len(out'[w])].frame = payload[c]]_vars

\* two connections registered the same repeater principal one after the
\* other, and an Invoke was forwarded to the later one's connection
C16_Witness ==
  \E r \in LiveSessions : \E s1, s2 \in InsertedFor(r) :
    /\ s1.seq = 1 /\ s2.seq = 2
    /\ s1.session.write # s2.session.write
    /\ repeaters[r] = s2.session
    /\ \E e \in OutEntries(s2.session.write) :
         e.how = "forward" /\ e.sess = s2.session

\* connection c takes the next frame off its stream in this step
TakesFrame(c) == arrived'[c] = arrived[c] + 1

\* C19: a connection's frames are handled one at a time in arrival order: the
\* next frame is read only when nothing of the previous one is in hand, each
\* write a thread makes is for the frame it read last, and the frames one
\* thread writes to one stream follow the order of arrival of the frames that
\* caused them, so two Invokes of one agent connection reach a repeater in the
\* order they were sent.
C19_OneFrameAtATime ==
  /\ [][\A c \in Conns :
          /\ TakesFrame(c) =>
               /\ pc[c] = "read" /\ payload[c] = NoPayload
               /\ session[c] = NoSession /\ agent[c] = None
               /\ payload'[c] # NoPayload => pc'[c] = "replay"
          /\ WritesFrame(c) =>
               \A w \in Conns :
                 out'[w] # out[w] =>
                   /\ out'[w][Len(out'[w])].read = payload[c]
                   /\ out'[w][Len(out'[w])].k = arrived[c]
                   /\ arrived'[c] = arrived[c]]_vars
  /\ [](\A w \in Conns : \A i, j \in DOMAIN out[w] :
          (i < j /\ out[w][i].by = out[w][j].by) => out[w][i].k < out[w][j].k)

\* one agent connection sent two Invokes, and both were forwarded to the same
\* repeater connection in the order of their arrival
C19_Witness ==
  \E w \in RepeaterConns : \E i, j \in DOMAIN out[w] :
    /\ i < j
    /\ out[w][i].by = out[w][j].by /\ out[w][i].by \in AgentConns
    /\ out[w][i].how = "forward" /\ out[w][j].how = "forward"
    /\ out[w][i].k < out[w][j].k
    /\ out[w][i].read # out[w][j].read

\* the reply in hand at repeater connection c is authentic and its body
\* decodes: route_reply is about to be called with its request id
ReplyDispatched(c) ==
  LET env == Envelope_decode(payload[c]) IN
  /\ c \in RepeaterConns /\ pc[c] = "dispatch"
  /\ verify(lookup_vk(env.principal), env)
  /\ \/ env.msg_type = "Result" /\ ResultBody_decodes(env.body)
     \/ env.msg_type = "Error" /\ ErrorBody_decodes(env.body)

Writing(w) == {t \in Conns : wpc[t].at \in {"len", "payload"} /\ wpc[t].w = w}

\* C18: at most one thread at a time is writing a frame to a connection's
\* stream, every thread inside write_frame holds that connection's write
\* lock, and on the stream each payload comes right after its own length
\* header: the bytes of two frames never interleave.
C18_WritesSerialized ==
  /\ \A w \in Conns : Cardinality(Writing(w)) <= 1
  /\ \A t \in Conns : wpc[t].at # "idle" => write_lock[wpc[t].w] = t
  /\ \A w \in Conns : \A i \in DOMAIN stream[w] :
       stream[w][i][1] = "payload" =>
         /\ i > 1
         /\ stream[w][i - 1] = <<"len", stream[w][i][2], stream[w][i][3]>>

\* an agent's stream carries two whole frames written by two different
\* threads, its own (send_error) and a repeater's (route_reply), and both
\* locks have been released
C18_Witness ==
  \E w \in AgentConns :
    /\ Len(stream[w]) = 4
    /\ stream[w][2][1] = "payload" /\ stream[w][4][1] = "payload"
    /\ {stream[w][2][3], stream[w][4][3]} \cap RepeaterConns # {}
    /\ w \in {stream[w][2][3], stream[w][4][3]}
    /\ stream[w][2][3] # stream[w][4][3]
    /\ write_lock[w] = None

\* the distance between the clock value a thread sampled and a timestamp
Distance(a, b) == IF a >= b THEN a - b ELSE b - a

\* C21: check_and_record answers OutsideWindow exactly when the timestamp lies
\* more than the window away from now_ms, before it or after it, a distance
\* equal to the window being accepted; and then the cache stays as it was.
C21_OutsideWindow ==
  [][\A c \in Conns :
       (pc[c] = "replay" /\ Steps(c)) =>
         LET far == Distance(now_ms[c], payload[c].ts_ms) > Window
             r   == check_and_record(replay, now_ms[c], payload[c].ts_ms,
                                     payload[c].principal, payload[c].nonce)
         IN /\ far <=> r[1] = "OutsideWindow"
            /\ far => /\ replay' = replay /\ accepted' = accepted
                      /\ pc'[c] \in {"read", "replay_err"}
            /\ (~far /\ ~contains_key(evict(replay, now_ms[c]).seen,
                                      payload[c].principal, payload[c].nonce))
                 => pc'[c] = "dispatch"]_vars

\* with an entry in the cache, an Invoke stamped more than the window ahead
\* of the clock has been turned down, and one stamped more than the window
\* behind it is being turned down; a frame exactly the window away was taken
C21_Witness ==
  /\ replay.seen # {}
  /\ \E t \in accepted : Distance(t[4], t[3]) = Window
  /\ \E c \in AgentConns : \E e \in OutEntries(c) :
       /\ e.how = "error" /\ e.frame.body.code = "Replay"
       /\ e.read.ts_ms > e.frame.ts_ms + Window
  /\ \E c \in AgentConns :
       /\ pc[c] = "replay_err"
       /\ now_ms[c] > payload[c].ts_ms + Window

\* C28: a frame whose payload Envelope::decode turns down, for whichever of
\* its reasons, ends the connection's loop with nothing written to any
\* stream and with the replay cache, the session table and the pending table
\* as they were; the ended loop reads no more.
C28_DecodeFailureCloses ==
  [][\A c \in Conns :
       /\ \A f \in {kf[2] : kf \in wire[c]} :
            (ReadsFrame(c, f) /\ f.wire \in DecodeErrors) =>
              /\ pc'[c] = "err"
              /\ out' = out
              /\ UNCHANGED <<replay, repeaters, pending, accepted>>
       /\ pc[c] = "err" => pc'[c] = "err" /\ wire'[c] = wire[c]]_vars

\* with a session in the table and a nonce in the replay cache, connections
\* have been closed on a bad magic, an unknown message type and a bad
\* signature length, and nothing was written to them
C28_Witness ==
  /\ \E kf \in wire["a1"] : kf[2].wire = "bstr too large"
  /\ \A why \in {"bad magic", "unknown message type", "bad signature length"} :
       \E c \in Conns :
         /\ pc[c] = "err"
         /\ \E kf \in ScriptSpoilt.frames[c] \ wire[c] : kf[2].wire = why
         /\ \A e \in OutEntries(c) : e.by # c
  /\ replay.seen # {}
  /\ \E r \in DOMAIN repeaters : repeaters[r] # NoSession

\* the forward of the Invoke in hand at c fails: the repeater's stream no
\* longer takes a frame
ForwardFails(c) ==
  /\ pc[c] = "fwd"
  /\ Steps(c)
  /\ ~WriteOk(session[c].write)

\* C29: when the forward of an agent's Invoke to the repeater fails with an
\* I/O error while the agent's own stream still takes frames, the broker
\* writes Error(Internal) for that request to the agent.
C29_InternalFailureAnswered ==
  [][\A c \in AgentConns :
       (ForwardFails(c) /\ WriteOk(c)) =>
         /\ Len(out'[c]) = Len(out[c]) + 1
         /\ out'[c][Len(out'[c])].how = "error"
         /\ out'[c][Len(out'[c])].frame.body.code = "Internal"]_vars

\* C30: once the stop flag is set, both accept loops exit and Server::run
\* returns, whether or not peer threads are still running; a loop that has
\* loaded the flag as set has exited for good and accepts no connection.
C30_StopEndsRun ==
  /\ stop ~> (run_pc = "returned" /\ \A k \in PeerKinds : apc[k] = "exited")
  /\ [][\A k \in PeerKinds :
          saw_stop[k] => /\ apc[k] = "exited" /\ apc'[k] = "exited"
                         /\ accepts'[k] = accepts[k]
                         /\ backlog'[k] = backlog[k]]_vars

\* Server::run has returned after the flag was set while peer threads are
\* still running and a connection made to a listener was never accepted
C30_Witness ==
  /\ stop
  /\ run_pc = "returned"
  /\ \A k \in PeerKinds : saw_stop[k]
  /\ peers = Cardinality(Conns) + 1
  /\ accepts["Agent"] = Cardinality(AgentConns) + 1
  /\ backlog["Repeater"] = 1

\* the five invariants of the catalog, read off a plaintext: operators
\* non-empty, every action owned by a repeater of the catalog, permissions
\* keyed by agents, permitted actions declared, version 1
CatalogInvariants(d) ==
  /\ d.toml
  /\ d.recipients # {}
  /\ \A a \in DOMAIN d.actions : d.actions[a] \in d.repeaters
  /\ DOMAIN d.permissions \subseteq d.agents
  /\ \A p \in DOMAIN d.permissions : d.permissions[p] \subseteq DOMAIN d.actions
  /\ d.version = 1

\* C22: a bunker is installed as the daemon's snapshot only if the plaintext
\* it was decoded from satisfies all five catalog invariants.
C22_LoadChecksInvariants ==
  snapshot.installed => CatalogInvariants(fired.enc.pt)

\* C27: fire_up turns down a file without the age header before handing any
\* identity to rage; otherwise it tries the host identity first and an
\* operator identity only when the host identity failed and one was given;
\* it succeeds exactly when a tried identity decrypts the file and the
\* plaintext decodes and validates; a failing host key with no operator ends
\* with the "requires an operator" error, and a failing host key with an
\* operator that is no recipient ends with the "not permitted" error.
C27_FireUpOrder ==
  LET r   == fired.res
      enc == fired.enc
      op  == fired.operator
  IN r.err # "not started" =>
       /\ enc.kind \in {"absent", "text"} => ~r.ok /\ r.tried = << >>
       /\ enc.kind = "text" => r.err = "bunker is not an age file"
       /\ enc.kind = "age" =>
            /\ r.tried[1] = "host"
            /\ Len(r.tried) <= 2
            /\ Len(r.tried) = 2 <=> (~decrypts(enc, "host") /\ op # None)
            /\ Len(r.tried) = 2 => r.tried[2] = op
            /\ (~decrypts(enc, "host") /\ op = None) =>
                 r.err = "this bunker requires an operator; could not decrypt with host key"
            /\ (~decrypts(enc, "host") /\ op # None /\ ~decrypts(enc, op)) =>
                 r.err = "this operator is not permitted to open this bunker"
       /\ r.ok <=> /\ \E i \in DOMAIN r.tried : decrypts(enc, r.tried[i])
                   /\ enc.pt.toml /\ enc.pt.version = 1
                   /\ validate(MkBunker(enc.pt.recipients, enc.pt.agents,
                                        enc.pt.targets, enc.pt.permissions,
                                        enc.pt.secrets)) = "ok"
       /\ snapshot.installed <=> r.ok

\* a bunker resealed for op2 was opened by op2 after the host key failed, and
\* the bunker it held was installed
C27_Witness ==
  /\ fired.res.ok
  /\ fired.res.tried = <<"host", "op2">>
  /\ fired.enc.gen > 0
  /\ snapshot.installed /\ snapshot.v.operators = fired.enc.recipients

\* the last command ended with an error
Failed == last.result \notin {"none", "running", "ok"}

\* C26: while a command is between its read of the bunker file and its
\* rename, and after it has failed at whatever step, the bunker path holds
\* what the command found there; the only change the path ever sees is the
\* rename, which puts there the whole age file of the bunker the command
\* validated; the path never holds cut-short or unsealed output.
C26_OldOrNewFile ==
  /\ [](/\ (adm.pc \in {"recips", "encrypt", "rename"} \/ Failed) =>
             file = last.pre
        /\ file.kind # "partial"
        /\ file.gen > 0 => file.kind = "age")
  /\ [][file' # file =>
          /\ adm.pc = "rename"
          /\ file' = Sealed(rage_recipients(recips_of(adm.b)),
                            Bunker_encode(adm.b), ncmds)]_vars

\* the second command died in its rage run and left cut-short output at the
\* temporary path; the bunker path still holds the file the first command
\* put there
C26_Witness ==
  /\ ncmds = 2
  /\ last.result = "encrypt"
  /\ tmp_out = Partial
  /\ file.kind = "age" /\ file.gen = 1 /\ file = last.pre
  /\ last.cmd.verb # "dig"

\* a command begins
Begins == ncmds' = ncmds + 1

\* C24: an Out Operator that opened the bunker is refused at once, the
\* bunker file untouched, with "operator not present" when the named key is
\* not among the operators and with "cannot remove final operator" when it
\* is the only one; every bunker file a command has written holds a
\* non-empty operator set.
C24_OperatorRemovalRefused ==
  /\ [](file.gen > 0 => file.pt.recipients # {})
  /\ [][(Begins /\ last'.cmd.verb = "out_operator"
           /\ open_with_identity(file, last'.cmd.operator).ok) =>
          LET ops == open_with_identity(file, last'.cmd.operator).v.operators
              key == last'.cmd.ident
          IN /\ key \notin ops =>
                  /\ last'.result = "operator not present"
                  /\ adm' = Idle /\ file' = file /\ tmp_out' = tmp_out
             /\ ops = {key} =>
                  /\ last'.result = "cannot remove final operator"
                  /\ adm' = Idle /\ file' = file /\ tmp_out' = tmp_out
             /\ (key \in ops /\ ops # {key}) => adm'.b.operators = ops \ {key}]_vars

\* after a Dig for op2 alone, op2's removal of itself was refused as the
\* removal of the final operator, and the file is the one Dig wrote
C24_Witness ==
  /\ ncmds = 2
  /\ last.cmd.verb = "out_operator" /\ last.cmd.ident = "op2"
  /\ last.result = "cannot remove final operator"
  /\ file.gen = 1 /\ file.pt.recipients = {"op2"} /\ file = last.pre

\* the invariants a stored bunker must satisfy, read off its plaintext:
\* version 1, operators non-empty, permissions keyed by agents and naming
\* targets of the bunker, every target named, with a command, a shape over
\* the four fields with nothing both required and forbidden, and secret
\* references that the bunker defines
StoredInvariants(d) ==
  /\ d.toml /\ d.version = 1
  /\ d.recipients # {}
  /\ DOMAIN d.permissions \subseteq d.agents
  /\ \A a \in DOMAIN d.permissions : d.permissions[a] \subseteq DOMAIN d.targets
  /\ \A t \in DOMAIN d.targets :
       /\ t # ""
       /\ ~d.targets[t].blank
       /\ d.targets[t].allow \cup d.targets[t].forbid \cup d.targets[t].require
            \subseteq {"command", "argv", "env", "stdin"}
       /\ d.targets[t].require \cap d.targets[t].forbid = {}
       /\ d.targets[t].refs \subseteq d.secrets

C25_RecipientsAreOperators ==
  [][file' # file =>
       /\ file'.recipients = file'.pt.recipients
       /\ \A i \in Identities : decrypts(file', i) <=> i \in file'.pt.recipients]_vars

\* C36: the handling of a frame whose signature does not verify changes none
\* of the replay cache, the session table and the pending table; its
\* (principal, nonce) is not recorded.
C36_ForgedFrameRecordsNothing ==
  [][\A c \in Conns :
       (BadSignatureInHand(c) /\ Steps(c)) =>
         UNCHANGED <<replay, repeaters, pending>>]_vars

\* C37: every Result or Error frame written to an agent's stream carries
\* the principal of the repeater that owns the action of a forwarded Invoke
\* with the same request id.
C37_ReplyFromForwardee ==
  \A w \in Conns : \A e \in OutEntries(w) :
    e.how = "reply" =>
      \E r \in Conns : \E f \in OutEntries(r) :
        /\ f.how = "forward"
        /\ f.frame.body.request_id = e.frame.body.request_id
        /\ f.frame.body.action \in DOMAIN Bunker.actions
        /\ Bunker.actions[f.frame.body.action] = e.frame.principal

\* C33: after a check_and_record at now_ms that is not turned down as
\* OutsideWindow, the cache holds no entry whose first-seen ts is below
\* now_ms - window_ms (saturating at zero).
C33_NoStaleEntry ==
  [][\A c \in Conns :
       (/\ pc[c] = "replay" /\ Steps(c)
        /\ Distance(now_ms[c], payload[c].ts_ms) <= Window)
       => \A e \in replay'.seen : e[3] >= saturating_sub(now_ms[c], Window)]_vars

\* the repeater connection r handles, in this step, a well-formed reply to
\* request q that it read after the Invoke of q was written to r's stream,
\* the only Invoke that ever used that request id
ReplyAfterForward(r, q) ==
  LET env == Envelope_decode(payload[r]) IN
  /\ pc[r] = "dispatch" /\ Steps(r)
  /\ env.msg_type \in {"Result", "Error"}
  /\ verify(lookup_vk(env.principal), env)
  /\ env.body.shape \in {"result", "error"}
  /\ env.body.request_id = q
  /\ Len(inserted[q]) = 1
  /\ \E i \in 1..heard[r] :
       out[r][i].how = "forward" /\ out[r][i].frame.body.request_id = q

\* C34: the pending entry of a forwarded Invoke is in the table before the
\* frame is written to the repeater, and the repeater's reply, sent after it
\* received the frame, finds the entry of the forwarding agent.
C34_ReplyFindsPending ==
  /\ [](\A r \in Conns : \A f \in OutEntries(r) :
          f.how = "forward" =>
            f.by \in {inserted[f.frame.body.request_id][i] :
                        i \in DOMAIN inserted[f.frame.body.request_id]})
  /\ [][\A r \in RepeaterConns : \A q \in RequestIds :
          ReplyAfterForward(r, q) => pending[q] = inserted[q][1]]_vars


\* the writes made on behalf of the k-th frame that arrived on connection c:
\* synthesized errors and forwards, each with the stream and its place there
HandlingWrites(c, k) ==
  {<<w, i>> \in Conns \X (1..MaxFrames) :
     /\ i \in DOMAIN out[w]
     /\ out[w][i].by = c /\ out[w][i].k = k
     /\ out[w][i].how \in {"error", "forward"}}

\* connection c's thread appends a synthesized error in this step
SynthesizesError(c) ==
  \E w \in Conns :
    /\ Len(out'[w]) = Len(out[w]) + 1
    /\ out'[w][Len(out'[w])].how = "error"
    /\ out'[w][Len(out'[w])].by = c

\* C35: a handled Invoke frame gets at most one of a single synthesized error,
\* written to the sending agent, or a pending insertion followed by a forward;
\* a synthesized error leaves the pending table alone, removing a repeater
\* session leaves it alone, and no error is synthesized for an Invoke whose
\* pending entry was inserted or which was forwarded.
C35_ErrorOrForward ==
  /\ [](\A c \in Conns : \A k \in 1..MaxFrames :
          /\ Cardinality(HandlingWrites(c, k)) <= 1
          /\ \A wi \in HandlingWrites(c, k) :
               out[wi[1]][wi[2]].how = "error" => wi[1] = c)
  /\ [][\A c \in Conns :
          /\ SynthesizesError(c) =>
               /\ pending' = pending /\ inserted' = inserted
               /\ pc[c] \notin {"pend", "fwd"}
          /\ (pc[c] = "pend" /\ Steps(c)) => HandlingWrites(c, arrived[c]) = {}
          /\ (\E id \in DOMAIN repeaters :
                repeaters[id] # NoSession /\ repeaters'[id] = NoSession)
               => pending' = pending]_vars

\* an agent got a synthesized error for one Invoke and had another forwarded,
\* and the forwardee's session is gone while the pending entry remains
C35_Witness ==
  \E a \in AgentConns : \E r \in RepeaterConns : \E q \in RequestIds :
    /\ \E e \in OutEntries(a) : e.how = "error" /\ e.by = a
    /\ \E f \in OutEntries(r) :
         f.how = "forward" /\ f.by = a /\ f.frame.body.request_id = q
    /\ pending[q] = a
    /\ \A id \in DOMAIN repeaters : repeaters[id] = NoSession


\* a framing call was made in this step
Called(op) == fcalls' # fcalls /\ fres'.op = op

\* C31: read_frame gives back the payload of the oldest frame write_frame put
\* whole on the stream and consumes its 4 + length bytes; write_frame refuses a
\* payload longer than MAX_FRAME_SIZE with FrameTooLarge and writes nothing;
\* read_frame refuses a header announcing more than MAX_FRAME_SIZE with
\* FrameTooLarge, having consumed the header only.
C31_FramingRoundTrip ==
  [][/\ (Called("read") /\ ~track.torn /\ track.junk = 0 /\ track.sent # << >>) =>
          /\ fres'.err = "none"
          /\ fres'.buf = Head(track.sent)
          /\ pipe' = Drop(pipe, 4 + Len(Head(track.sent)))
     /\ (Called("write") /\ Len(fres'.payload) <= MAX_FRAME_SIZE) =>
          fres'.err \in {"none", "Io"}
     /\ (Called("write") /\ Len(fres'.payload) > MAX_FRAME_SIZE) =>
          fres'.err = "FrameTooLarge" /\ pipe' = pipe
     /\ (Called("read") /\ Len(pipe) >= 4
           /\ from_be_bytes(SubSeq(pipe, 1, 4)) > MAX_FRAME_SIZE) =>
          fres'.err = "FrameTooLarge" /\ pipe' = Drop(pipe, 4)]_vars

\* two frames were written and read back in order, the second of them of
\* MAX_FRAME_SIZE bytes
C31_Witness ==
  /\ track.read_back = 2 /\ ~track.torn
  /\ fres.op = "read" /\ fres.err = "none" /\ Len(fres.buf) = MAX_FRAME_SIZE


\* every byte string of x is within MAX_FRAME_SIZE
FitsCap(x) ==
  CASE x.ty = "Envelope" ->
         /\ Len(x.v.principal) <= MAX_FRAME_SIZE /\ Len(x.v.nonce) <= MAX_FRAME_SIZE
         /\ Len(x.v.body) <= MAX_FRAME_SIZE
    [] x.ty = "RegisterBody" ->
         /\ Len(x.v.repeater_id) <= MAX_FRAME_SIZE
         /\ \A i \in DOMAIN x.v.actions : Len(x.v.actions[i]) <= MAX_FRAME_SIZE
    [] x.ty = "InvokeBody" ->
         /\ Len(x.v.request_id) <= MAX_FRAME_SIZE /\ Len(x.v.action) <= MAX_FRAME_SIZE
         /\ Len(x.v.params) <= MAX_FRAME_SIZE
    [] x.ty = "ResultBody" ->
         Len(x.v.request_id) <= MAX_FRAME_SIZE /\ Len(x.v.result) <= MAX_FRAME_SIZE
    [] x.ty = "ErrorBody" ->
         Len(x.v.request_id) <= MAX_FRAME_SIZE /\ Len(x.v.message) <= MAX_FRAME_SIZE

\* C32: an envelope or body whose byte strings fit the size cap is encoded, and
\* decoding the bytes gives the same value back.
C32_CodecRoundTrip ==
  FitsCap(cval) =>
    /\ cstage \in {"encoded", "decoded"} => cenc.err = "none"
    /\ cstage = "decoded" => cdec.err = "none" /\ cdec.val = cval.v

\* a Register body with two actions, one of them empty, was encoded and decoded
C32_Witness ==
  /\ cstage = "decoded" /\ cval.ty = "RegisterBody"
  /\ Len(cval.v.actions) = 2 /\ Len(cval.v.repeater_id) = MAX_FRAME_SIZE
  /\ cdec.val = cval.v


\* C39: tuples that differ in a field have different signing bytes, and the
\* signature made for one envelope is refused on an envelope with another
\* principal, timestamp, nonce or body.
C39_SigningBytesInjective ==
  (gstage = "verified" /\ signed # claimed) =>
    /\ sigmsg.bytes # canonical_signing_bytes(claimed.principal, claimed.ts_ms,
                                               claimed.nonce, claimed.body)
    /\ verdict = "BadSignature"


\* the payload conforms to the shape of the target
Conforms(def, req) ==
  /\ \A i \in 1..4 : shape_error(def.shape, present(req)[i]) = "none"
  /\ def.shape.argv_placeholders.some =>
       /\ req.argv.some
       /\ sum_placeholders(req.argv.v) = def.shape.argv_placeholders.v

\* every template token of the target resolves to a secret
AllTokensResolve(def, secrets) ==
  /\ render_secret_tokens(def.transform.out_command, secrets).ok
  /\ \A i \in DOMAIN def.transform.out_argv_replace :
       render_secret_tokens(def.transform.out_argv_replace[i][2], secrets).ok
  /\ \A i \in DOMAIN def.transform.out_env : \A j \in 1..2 :
       render_secret_tokens(def.transform.out_env[i][j], secrets).ok
  /\ \A i \in DOMAIN def.transform.out_stdin_replace :
       render_secret_tokens(def.transform.out_stdin_replace[i][2], secrets).ok

\* every template token that conform_payload has to render resolves to a
\* secret: those of out_argv_replace only when argv has an item
RenderedTokensResolve(def, req, secrets) ==
  /\ render_secret_tokens(def.transform.out_command, secrets).ok
  /\ req.argv.v # << >> =>
       \A i \in DOMAIN def.transform.out_argv_replace :
         render_secret_tokens(def.transform.out_argv_replace[i][2], secrets).ok
  /\ \A i \in DOMAIN def.transform.out_env : \A j \in 1..2 :
       render_secret_tokens(def.transform.out_env[i][j], secrets).ok
  /\ \A i \in DOMAIN def.transform.out_stdin_replace :
       render_secret_tokens(def.transform.out_stdin_replace[i][2], secrets).ok

\* the checks of execute_invoke in their order, the last of them being
\* last_check; no process on any of the four errors
CheckedInOrder(last_check) ==
  istage = "returned" =>
    /\ ~authed(ibunker, ireq) => ires.err = "Unauthenticated"
    /\ (authed(ibunker, ireq) /\ ~permitted(ibunker, ireq)) => ires.err = "Denied"
    /\ (/\ authed(ibunker, ireq) /\ permitted(ibunker, ireq)
        /\ ireq.target \notin DOMAIN ibunker.targets) => ires.err = "UnknownTarget"
    /\ (/\ authed(ibunker, ireq) /\ permitted(ibunker, ireq)
        /\ ireq.target \in DOMAIN ibunker.targets
        /\ ~last_check) => ires.err = "BadRequest"
    /\ ires.err \in {"Unauthenticated", "Denied", "UnknownTarget", "BadRequest"}
         => spawned = << >>
    /\ spawned # << >> =>
         /\ authed(ibunker, ireq) /\ permitted(ibunker, ireq)
         /\ ireq.target \in DOMAIN ibunker.targets
         /\ last_check

\* C40 as stated: the target command is spawned only when the secret matches,
\* the target is permitted and exists, the payload conforms to the shape and
\* every template token of the target resolves to a secret; the first failing
\* check decides the error and no process is spawned on any of the errors.
C40_SpawnOnlyAfterChecks ==
  CheckedInOrder(
    /\ Conforms(ibunker.targets[ireq.target], ireq)
    /\ AllTokensResolve(ibunker.targets[ireq.target], ibunker.secrets))

\* C40 amended: the same, with the tokens of out_argv_replace counted only
\* when the payload's argv has at least one item.
C40_SpawnOnlyAfterRenderedChecks ==
  CheckedInOrder(
    /\ Conforms(ibunker.targets[ireq.target], ireq)
    /\ RenderedTokensResolve(ibunker.targets[ireq.target], ireq, ibunker.secrets))

\* the target with secret tokens in its argv and env templates was spawned
\* with the secret in place of the tokens
C40_Witness ==
  /\ istage = "returned" /\ ireq.target = "token" /\ Len(spawned) = 1
  /\ spawned[1].command = <<"c", "v">>
  /\ spawned[1].env[<<"K">>] = <<"v">>


\* the mutex thread t is waiting for, if any
Wants(t) == IF NextOp(t)[1] = "lock" THEN NextOp(t)[2] ELSE <<"-", "-">>

\* the threads of S wait for mutexes held by threads of S
WaitCycle(S) ==
  \A t \in S : NextOp(t)[1] = "lock" /\ owner[Wants(t)] \in S

====
